---- MODULE Spec2Model ----
(***************************************************************************)
(* The Coup game engine of coup_gto (src/coup_gto/engine/state.py,         *)
(* src/coup_gto/engine/actions.py, src/coup_gto/rules/base.py) as a state  *)
(* machine: one action per handler that GameState.apply dispatches to.     *)
(*                                                                         *)
(* The engine's handlers mutate the game in sequence; here every handler   *)
(* is an operator from a game record g (the fields of GameState) to the    *)
(* SET of game records it can produce.  The only source of more than one   *)
(* outcome is the seeded random.Random: the order rng.shuffle leaves the   *)
(* deck in depends on the seed, which is an input of the constructor.      *)
(*                                                                         *)
(* The deck is the list GameState.deck.  It is kept as                     *)
(*     pool : how many cards of each role are in the part of the deck      *)
(*            whose order the last shuffle decided (the front of the list) *)
(*     tail : the cards appended since that shuffle, in list order.        *)
(* A card leaving the shuffled part is any card of the pool: this is the   *)
(* choice of the shuffle's permutation, made when the card is looked at.   *)
(*                                                                         *)
(* ActionType: src/coup_gto/engine/actions.py declares INCOME..CHALLENGE   *)
(* but not BLOCK_ASSASSINATE, BLOCK_STEAL_CAPTAIN, BLOCK_STEAL_AMBASSADOR, *)
(* which state.py and the tests use.  The three members are taken from     *)
(* the specification's catalogue of response actions (spec section 3).     *)
(***************************************************************************)
EXTENDS Integers, Sequences, FiniteSets, TLC

(* ---------------- bounds of the exploration ---------------- *)

\* seat counts explored: 2..MaxPlayers (the constructor admits 2..6)
MaxPlayers == 3

\* number of apply() calls explored from an initial state
MaxSteps == 3

(* ---------------- rules/base.py ---------------- *)

starting_coins == 2
cards_per_player == 2
coup_cost == 7
assassinate_cost == 3
mandatory_coup_threshold == 10

\* Role enum values (actions.py); the value is the string sorted() compares
Roles == {"Duke", "Assassin", "Captain", "Ambassador", "Contessa"}

\* position of a role's value in string order, the key of sorted(key=r.value)
RoleOrder(r) ==
    CASE r = "Ambassador" -> 1
      [] r = "Assassin" -> 2
      [] r = "Captain" -> 3
      [] r = "Contessa" -> 4
      [] r = "Duke" -> 5

deck_counts == [r \in Roles |-> 3]

\* BaseRules.blocks: the role a block response claims
blocks(t) ==
    CASE t = "FOREIGN_AID" -> {"Duke"}
      [] t = "ASSASSINATE" -> {"Contessa"}
      [] t = "STEAL" -> {"Captain", "Ambassador"}
      [] OTHER -> {}

\* BaseRules.claims: the role a primary action claims
claims(t) ==
    CASE t = "TAX" -> "Duke"
      [] t = "ASSASSINATE" -> "Assassin"
      [] t = "STEAL" -> "Captain"
      [] t = "EXCHANGE" -> "Ambassador"
      [] OTHER -> "None"

(* ---------------- actions.py ---------------- *)

ActionType ==
    {"INCOME", "FOREIGN_AID", "COUP", "TAX", "ASSASSINATE", "STEAL", "EXCHANGE",
     "PASS", "BLOCK_FOREIGN_AID", "CHALLENGE",
     "BLOCK_ASSASSINATE", "BLOCK_STEAL_CAPTAIN", "BLOCK_STEAL_AMBASSADOR"}

\* Python's None for an Optional[int] player index
None == -1

\* Python's None for an Optional[Role]
NoRole == "None"

\* Action(actor, type, target); cost is always its default 0 and is left out
Action(actor, type, target) == [actor |-> actor, type |-> type, target |-> target]

\* Python's None for an Optional[Action]
NoAction == Action(None, "None", None)

VARIABLES
    num_players,
    players,                 \* players[p] = [coins, hand, revealed]
    deck,                    \* [pool, tail]
    current_player,
    pending_action,
    pending_blocker,
    pending_block_role,
    awaiting_response_from,
    pending_claim_role,
    last,                    \* the action of the latest apply() call, if it was accepted
    prev,                    \* the game as it was before that call
    steps,                   \* apply() calls accepted so far
    raised,                  \* why the latest apply() call raised, "None" if it did not
    nodes,                   \* MCCFRSolver.nodes: infoset key -> NodeStats
    max_depth,               \* MCCFRSolver.max_depth
    traversal_mode,          \* MCCFRSolver.traversal_mode
    ckpt,                    \* the checkpoint file, NoFile if none was written
    probs,                   \* what the latest action_probabilities() call returned
    at_save,                 \* the solver as it was at the latest save_checkpoint()
    op,                      \* the latest call of a solver method
    evaluation,              \* the locals of the evaluate() call in progress
    traversals,              \* iterate(): the updating players whose traversal is still to run
    frames,                  \* the stack of _mccfr_traverse calls, the innermost last
    objs,                    \* the GameState objects the traversal holds, by identity
    ret                      \* what the outermost _mccfr_traverse call returned

game_vars ==
    << num_players, players, deck, current_player, pending_action, pending_blocker,
       pending_block_role, awaiting_response_from, pending_claim_role >>

\* the calls of evaluate() and iterate() in progress
run_vars == << evaluation, traversals, frames, objs, ret >>

solver_vars == << nodes, max_depth, traversal_mode, ckpt, probs, at_save, op, run_vars >>

vars == << game_vars, last, prev, steps, raised, solver_vars >>

\* the GameState object as a record
G ==
    [ num_players |-> num_players,
      players |-> players,
      deck |-> deck,
      current_player |-> current_player,
      pending_action |-> pending_action,
      pending_blocker |-> pending_blocker,
      pending_block_role |-> pending_block_role,
      awaiting_response_from |-> awaiting_response_from,
      pending_claim_role |-> pending_claim_role ]

(* ---------------- list helpers ---------------- *)

\* x in list
InList(x, s) == \E i \in 1..Len(s) : s[i] = x

\* list.count(x)
Count(s, x) == Cardinality({i \in 1..Len(s) : s[i] = x})

\* list.remove(x): drops the first occurrence
RemoveFirst(s, x) ==
    LET i == CHOOSE k \in 1..Len(s) : s[k] = x /\ \A j \in 1..(k - 1) : s[j] # x
    IN  SubSeq(s, 1, i - 1) \o SubSeq(s, i + 1, Len(s))

RECURSIVE InsertSorted(_, _)
InsertSorted(s, x) ==
    IF s = << >> THEN << x >>
    ELSE IF RoleOrder(x) < RoleOrder(Head(s)) THEN << x >> \o s
    ELSE << Head(s) >> \o InsertSorted(Tail(s), x)

\* sorted(combined, key=lambda r: r.value)
RECURSIVE SortedByValue(_)
SortedByValue(s) ==
    IF s = << >> THEN << >>
    ELSE InsertSorted(SortedByValue(SubSeq(s, 1, Len(s) - 1)), s[Len(s)])

\* s[:n]
Prefix(s, n) == SubSeq(s, 1, IF Len(s) < n THEN Len(s) ELSE n)

Min(a, b) == IF a < b THEN a ELSE b

(* ---------------- the deck ---------------- *)

PoolSize(d) ==
    d.pool["Duke"] + d.pool["Assassin"] + d.pool["Captain"]
        + d.pool["Ambassador"] + d.pool["Contessa"]

\* len(self.deck)
DeckLen(d) == PoolSize(d) + Len(d.tail)

\* self.deck.count(r)
DeckCount(d, r) == d.pool[r] + Count(d.tail, r)

\* self.deck.append(r)
DeckAppend(d, r) == [pool |-> d.pool, tail |-> Append(d.tail, r)]

\* self.deck.extend(rs)
DeckExtend(d, rs) == [pool |-> d.pool, tail |-> d.tail \o rs]

\* self.rng.shuffle(self.deck): every card's position is decided anew
Shuffle(d) == [pool |-> [r \in Roles |-> DeckCount(d, r)], tail |-> << >>]

\* the deck without one card r of its shuffled part
TakeFromPool(d, r) ==
    [pool |-> [x \in Roles |-> IF x = r THEN d.pool[x] - 1 ELSE d.pool[x]], tail |-> d.tail]

\* self.deck.pop() on a non-empty deck: the outcomes << card, deck after >>
DeckPop(d) ==
    IF d.tail # << >>
    THEN { << d.tail[Len(d.tail)], [pool |-> d.pool, tail |-> SubSeq(d.tail, 1, Len(d.tail) - 1)] >> }
    ELSE { << r, TakeFromPool(d, r) >> : r \in {x \in Roles : d.pool[x] > 0} }

\* self.deck.pop(0) on a non-empty deck: the outcomes << card, deck after >>
DeckPopFront(d) ==
    IF PoolSize(d) > 0
    THEN { << r, TakeFromPool(d, r) >> : r \in {x \in Roles : d.pool[x] > 0} }
    ELSE { << Head(d.tail), [pool |-> d.pool, tail |-> Tail(d.tail)] >> }

(* ---------------- state.py: utilities ---------------- *)

Seats(g) == 0..(g.num_players - 1)

\* PlayerState.alive
alive(ps) == Len(ps.hand) > 0

\* GameState.alive_players (as a set; winner only looks at its size and element)
alive_players(g) == {i \in Seats(g) : alive(g.players[i])}

\* GameState.winner
winner(g) ==
    IF Cardinality(alive_players(g)) = 1
    THEN CHOOSE i \in alive_players(g) : TRUE
    ELSE None

\* mutant of next_player: eliminated players are not skipped
next_player_NoSkip(g) ==
    [g EXCEPT !.current_player = (g.current_player + 1) % g.num_players]

\* GameState.next_player: the first alive seat after current_player (the loop
\* does not end when nobody is alive; apply calls it only when winner() is None)
next_player(g) ==
    LET k == CHOOSE o \in 1..g.num_players :
                /\ alive(g.players[(g.current_player + o) % g.num_players])
                /\ \A j \in 1..(o - 1) :
                      ~alive(g.players[(g.current_player + j) % g.num_players])
    IN  [g EXCEPT !.current_player = (g.current_player + k) % g.num_players]

\* GameState._default_target
_default_target(g) ==
    LET cands == {o \in 1..(g.num_players - 1) :
                     alive(g.players[(g.current_player + o) % g.num_players])}
    IN  IF cands = {} THEN None
        ELSE LET o == CHOOSE x \in cands : \A y \in cands : x <= y
             IN  (g.current_player + o) % g.num_players

\* GameState._player_has_role
_player_has_role(g, pid, role) == InList(role, g.players[pid].hand)

(* ---------------- state.py: legal actions ---------------- *)

\* mutant of StageBResponses: a declared block offers no response
StageBResponses_None(g) == << >>

\* _legal_responses once a block is declared: the primary actor may challenge or pass
StageBResponses(g) ==
    << Action(g.pending_action.actor, "CHALLENGE", None),
       Action(g.pending_action.actor, "PASS", None) >>

\* mutant of _legal_responses: a Steal cannot be blocked as Ambassador
_legal_responses_NoAmbassadorBlock(g) ==
    LET t == g.pending_action.type
        responder == g.awaiting_response_from
        stageB == StageBResponses(g)
    IN  CASE t = "FOREIGN_AID" ->
               IF g.pending_blocker = None
               THEN << Action(responder, "PASS", None),
                       Action(responder, "BLOCK_FOREIGN_AID", None) >>
               ELSE stageB
          [] t = "TAX" ->
               << Action(responder, "CHALLENGE", None), Action(responder, "PASS", None) >>
          [] t = "EXCHANGE" ->
               << Action(responder, "CHALLENGE", None), Action(responder, "PASS", None) >>
          [] t = "STEAL" ->
               IF g.pending_blocker = None
               THEN << Action(responder, "PASS", None),
                       Action(responder, "BLOCK_STEAL_CAPTAIN", None),
                       Action(responder, "CHALLENGE", None) >>
               ELSE stageB
          [] t = "ASSASSINATE" ->
               IF g.pending_blocker = None
               THEN << Action(responder, "PASS", None),
                       Action(responder, "BLOCK_ASSASSINATE", None),
                       Action(responder, "CHALLENGE", None) >>
               ELSE stageB
          [] OTHER -> << >>

\* GameState._legal_responses (pending_action is not None)
_legal_responses(g) ==
    LET t == g.pending_action.type
        responder == g.awaiting_response_from
        stageB == StageBResponses(g)
    IN  CASE t = "FOREIGN_AID" ->
               IF g.pending_blocker = None
               THEN << Action(responder, "PASS", None),
                       Action(responder, "BLOCK_FOREIGN_AID", None) >>
               ELSE stageB
          [] t = "TAX" ->
               << Action(responder, "CHALLENGE", None), Action(responder, "PASS", None) >>
          [] t = "EXCHANGE" ->
               << Action(responder, "CHALLENGE", None), Action(responder, "PASS", None) >>
          [] t = "STEAL" ->
               IF g.pending_blocker = None
               THEN << Action(responder, "PASS", None),
                       Action(responder, "BLOCK_STEAL_CAPTAIN", None),
                       Action(responder, "BLOCK_STEAL_AMBASSADOR", None),
                       Action(responder, "CHALLENGE", None) >>
               ELSE stageB
          [] t = "ASSASSINATE" ->
               IF g.pending_blocker = None
               THEN << Action(responder, "PASS", None),
                       Action(responder, "BLOCK_ASSASSINATE", None),
                       Action(responder, "CHALLENGE", None) >>
               ELSE stageB
          [] OTHER -> << >>

\* mutant of PrimaryActions: Assassinate is offered whatever the coins
PrimaryActions_AssassinateAlways(g) ==
    LET actor == g.current_player
        ps == g.players[actor]
        tgt == _default_target(g)
    IN  << Action(actor, "INCOME", None),
           Action(actor, "FOREIGN_AID", None),
           Action(actor, "TAX", None),
           Action(actor, "EXCHANGE", None) >>
        \o (IF actor # tgt THEN << Action(actor, "STEAL", tgt) >> ELSE << >>)
        \o << Action(actor, "ASSASSINATE", tgt) >>
        \o (IF ps.coins >= coup_cost THEN << Action(actor, "COUP", tgt) >> ELSE << >>)

\* the primary actions of an idle state below the mandatory-coup threshold
PrimaryActions(g) ==
    LET actor == g.current_player
        ps == g.players[actor]
        tgt == _default_target(g)
    IN  << Action(actor, "INCOME", None),
           Action(actor, "FOREIGN_AID", None),
           Action(actor, "TAX", None),
           Action(actor, "EXCHANGE", None) >>
        \o (IF actor # tgt THEN << Action(actor, "STEAL", tgt) >> ELSE << >>)
        \o (IF ps.coins >= assassinate_cost
            THEN << Action(actor, "ASSASSINATE", tgt) >> ELSE << >>)
        \o (IF ps.coins >= coup_cost THEN << Action(actor, "COUP", tgt) >> ELSE << >>)

\* mutant of legal_actions: a game that is won still offers actions
legal_actions_NoWinnerCheck(g) ==
    IF g.pending_action # NoAction THEN _legal_responses(g)
    ELSE IF g.players[g.current_player].coins >= mandatory_coup_threshold
         THEN << Action(g.current_player, "COUP", _default_target(g)) >>
    ELSE PrimaryActions(g)

\* mutant of legal_actions: no Coup is forced at the threshold
legal_actions_CoupNotForced(g) ==
    IF winner(g) # None THEN << >>
    ELSE IF g.pending_action # NoAction THEN _legal_responses(g)
    ELSE PrimaryActions(g)

\* GameState.legal_actions
legal_actions(g) ==
    IF winner(g) # None THEN << >>
    ELSE IF g.pending_action # NoAction THEN _legal_responses(g)
    ELSE IF g.players[g.current_player].coins >= mandatory_coup_threshold
         THEN << Action(g.current_player, "COUP", _default_target(g)) >>
    ELSE PrimaryActions(g)

(* ---------------- state.py: common helpers ---------------- *)

\* _lose_influence that gives up the last card of the hand
_lose_influence_Last(g, pid) ==
    LET ps == g.players[pid]
    IN  IF Len(ps.hand) > 0
        THEN [g EXCEPT !.players[pid].hand = SubSeq(ps.hand, 1, Len(ps.hand) - 1),
                       !.players[pid].revealed = Append(ps.revealed, ps.hand[Len(ps.hand)])]
        ELSE g

\* GameState._lose_influence
_lose_influence(g, pid) ==
    LET ps == g.players[pid]
    IN  IF Len(ps.hand) > 0
        THEN [g EXCEPT !.players[pid].hand = Tail(ps.hand),
                       !.players[pid].revealed = Append(ps.revealed, Head(ps.hand))]
        ELSE g

\* _truthful_reveal that shows the card and puts it on the revealed pile
_truthful_reveal_Keeps(g, pid, role) ==
    IF ~InList(role, g.players[pid].hand) THEN {}
    ELSE { [g EXCEPT !.players[pid].hand = RemoveFirst(g.players[pid].hand, role),
                     !.players[pid].revealed = Append(g.players[pid].revealed, role)] }

\* GameState._truthful_reveal: the games it can leave (the assert on a role
\* that is not in the hand raises, and leaves none)
_truthful_reveal(g, pid, role) ==
    IF ~InList(role, g.players[pid].hand) THEN {}
    ELSE LET hand1 == RemoveFirst(g.players[pid].hand, role)
             d1 == Shuffle(DeckAppend(g.deck, role))
         IN  IF DeckLen(d1) = 0
             THEN { [g EXCEPT !.players[pid].hand = hand1, !.deck = d1] }
             ELSE { [g EXCEPT !.players[pid].hand = Append(hand1, pd[1]), !.deck = pd[2]] :
                      pd \in DeckPop(d1) }

\* mutant of _clear_pending: the block role is not reset
_clear_pending_KeepsBlockRole(g) ==
    [g EXCEPT !.pending_action = NoAction,
              !.pending_blocker = None,
              !.awaiting_response_from = None,
              !.pending_claim_role = NoRole]

\* mutant of _clear_pending: the pending action stays, its window opens again
_clear_pending_ReopensWindow(g) ==
    [g EXCEPT !.pending_blocker = None,
              !.pending_block_role = NoRole]

\* GameState._clear_pending
_clear_pending(g) ==
    [g EXCEPT !.pending_action = NoAction,
              !.pending_blocker = None,
              !.pending_block_role = NoRole,
              !.awaiting_response_from = None,
              !.pending_claim_role = NoRole]

\* mutant of _apply_steal_transfer: always two coins, whatever the target has
_apply_steal_transfer_NoCeiling(g) ==
    LET actor == g.pending_action.actor
        target == g.pending_action.target
        g1 == [g EXCEPT !.players[target].coins = @ - 2]
    IN  [g1 EXCEPT !.players[actor].coins = @ + 2]

\* mutant of _apply_steal_transfer: everything the target has is taken
_apply_steal_transfer_TakesAll(g) ==
    LET actor == g.pending_action.actor
        target == g.pending_action.target
        amt == g.players[target].coins
        g1 == [g EXCEPT !.players[target].coins = @ - amt]
    IN  [g1 EXCEPT !.players[actor].coins = @ + amt]

\* GameState._apply_steal_transfer
_apply_steal_transfer(g) ==
    LET actor == g.pending_action.actor
        target == g.pending_action.target
        amt == Min(2, g.players[target].coins)
        g1 == [g EXCEPT !.players[target].coins = @ - amt]
    IN  [g1 EXCEPT !.players[actor].coins = @ + amt]

\* one round of the loop of _perform_exchange: "if self.deck: drawn.append(self.deck.pop(0))"
DrawOne(dr) ==
    IF DeckLen(dr.deck) = 0 THEN { dr }
    ELSE { [drawn |-> Append(dr.drawn, pd[1]), deck |-> pd[2]] : pd \in DeckPopFront(dr.deck) }

\* the two rounds of that loop: the outcomes [drawn, deck]
DrawTop2(d) == UNION { DrawOne(dr) : dr \in DrawOne([drawn |-> << >>, deck |-> d]) }

\* the cards _perform_exchange puts back:
\* [r for r in combined if r not in kept or kept.count(r) < combined.count(r)]
ExchangeReturned(combined, kept) ==
    SelectSeq(combined,
              LAMBDA r : ~InList(r, kept) \/ Count(kept, r) < Count(combined, r))

\* GameState._perform_exchange
_perform_exchange(g, actor) ==
    { LET combined == g.players[actor].hand \o dr.drawn
          kept == Prefix(SortedByValue(combined), cards_per_player)
          returned == ExchangeReturned(combined, kept)
      IN  [g EXCEPT !.players[actor].hand = kept,
                    !.deck = DeckExtend(dr.deck, returned)] :
      dr \in DrawTop2(g.deck) }

(* ---------------- state.py: the handlers apply dispatches to ---------------- *)

AddCoins(g, pid, n) == [g EXCEPT !.players[pid].coins = @ + n]

\* GameState._apply_income
_apply_income(g, action) == { AddCoins(g, action.actor, 1) }

\* GameState._start_foreign_aid_interaction
_start_foreign_aid_interaction(g, action) ==
    { [g EXCEPT !.pending_action = action,
                !.awaiting_response_from = _default_target(g)] }

\* GameState._start_tax_interaction
_start_tax_interaction(g, action) ==
    { [g EXCEPT !.pending_action = action,
                !.pending_claim_role = "Duke",
                !.awaiting_response_from = _default_target(g)] }

\* GameState._start_exchange_interaction
_start_exchange_interaction(g, action) ==
    { [g EXCEPT !.pending_action = action,
                !.pending_claim_role = "Ambassador",
                !.awaiting_response_from = _default_target(g)] }

\* GameState._start_steal_interaction (the assert raises before any change)
_start_steal_interaction(g, action) ==
    IF action.target = None THEN {}
    ELSE { [g EXCEPT !.pending_action = action,
                     !.pending_claim_role = "Captain",
                     !.awaiting_response_from = action.target] }

\* mutant of _start_assassinate_interaction: the cost is not taken at declaration
_start_assassinate_interaction_Unpaid(g, action) ==
    IF action.target = None \/ g.players[action.actor].coins < assassinate_cost THEN {}
    ELSE { [g EXCEPT !.pending_action = action,
                     !.pending_claim_role = "Assassin",
                     !.awaiting_response_from = action.target] }

\* GameState._start_assassinate_interaction (the asserts raise before any change)
_start_assassinate_interaction(g, action) ==
    IF action.target = None \/ g.players[action.actor].coins < assassinate_cost THEN {}
    ELSE { [AddCoins(g, action.actor, 0 - assassinate_cost)
               EXCEPT !.pending_action = action,
                      !.pending_claim_role = "Assassin",
                      !.awaiting_response_from = action.target] }

\* mutant of _apply_coup: the Coup is not paid for
_apply_coup_NoPayment(g, action) ==
    IF action.target = None \/ g.players[action.actor].coins < coup_cost THEN {}
    ELSE LET tps == g.players[action.target]
         IN  IF Len(tps.hand) > 0
             THEN { [g EXCEPT !.players[action.target].hand = Tail(tps.hand),
                              !.players[action.target].revealed =
                                  Append(tps.revealed, Head(tps.hand))] }
             ELSE { g }

\* GameState._apply_coup (the asserts raise before any change)
_apply_coup(g, action) ==
    IF action.target = None \/ g.players[action.actor].coins < coup_cost THEN {}
    ELSE LET g1 == AddCoins(g, action.actor, 0 - coup_cost)
             tps == g1.players[action.target]
         IN  IF Len(tps.hand) > 0
             THEN { [g1 EXCEPT !.players[action.target].hand = Tail(tps.hand),
                               !.players[action.target].revealed =
                                   Append(tps.revealed, Head(tps.hand))] }
             ELSE { g1 }

\* mutant of DeclareBlock: the blocker stays the one awaited
DeclareBlock_KeepsResponder(g, action, role) ==
    [g EXCEPT !.pending_blocker = action.actor,
              !.pending_block_role = role]

\* what the four _apply_block_* handlers share
DeclareBlock(g, action, role) ==
    [g EXCEPT !.pending_blocker = action.actor,
              !.pending_block_role = role,
              !.awaiting_response_from = g.pending_action.actor]

\* GameState._apply_block_foreign_aid
_apply_block_foreign_aid(g, action) ==
    IF g.pending_action.type # "FOREIGN_AID" \/ action.actor = g.pending_action.actor
    THEN {}
    ELSE { DeclareBlock(g, action, "Duke") }

\* GameState._apply_block_assassinate
_apply_block_assassinate(g, action) ==
    IF g.pending_action.type # "ASSASSINATE" \/ action.actor # g.pending_action.target
    THEN {}
    ELSE { DeclareBlock(g, action, "Contessa") }

\* GameState._apply_block_steal_captain
_apply_block_steal_captain(g, action) ==
    IF g.pending_action.type # "STEAL" \/ action.actor # g.pending_action.target
    THEN {}
    ELSE { DeclareBlock(g, action, "Captain") }

\* GameState._apply_block_steal_ambassador
_apply_block_steal_ambassador(g, action) ==
    IF g.pending_action.type # "STEAL" \/ action.actor # g.pending_action.target
    THEN {}
    ELSE { DeclareBlock(g, action, "Ambassador") }

\* mutant of _apply_pass: an unchallenged Tax pays what Foreign Aid pays
_apply_pass_TaxPaysTwo(g, action) ==
    LET t == g.pending_action.type
    IN  CASE t = "FOREIGN_AID" ->
               IF g.pending_blocker = None
               THEN { _clear_pending(AddCoins(g, g.pending_action.actor, 2)) }
               ELSE { _clear_pending(g) }
          [] t = "TAX" ->
               { _clear_pending(AddCoins(g, g.pending_action.actor, 2)) }
          [] t = "EXCHANGE" ->
               { _clear_pending(h) : h \in _perform_exchange(g, g.pending_action.actor) }
          [] t = "STEAL" ->
               IF g.pending_blocker = None
               THEN { _clear_pending(_apply_steal_transfer(g)) }
               ELSE { _clear_pending(g) }
          [] t = "ASSASSINATE" ->
               IF g.pending_blocker = None
               THEN { _clear_pending(_lose_influence(g, g.pending_action.target)) }
               ELSE { _clear_pending(g) }
          [] OTHER -> { g }

\* mutant of _apply_pass: accepting a Contessa block refunds the Assassinate cost
_apply_pass_BlockRefunds(g, action) ==
    LET t == g.pending_action.type
    IN  CASE t = "FOREIGN_AID" ->
               IF g.pending_blocker = None
               THEN { _clear_pending(AddCoins(g, g.pending_action.actor, 2)) }
               ELSE { _clear_pending(g) }
          [] t = "TAX" ->
               { _clear_pending(AddCoins(g, g.pending_action.actor, 3)) }
          [] t = "EXCHANGE" ->
               { _clear_pending(h) : h \in _perform_exchange(g, g.pending_action.actor) }
          [] t = "STEAL" ->
               IF g.pending_blocker = None
               THEN { _clear_pending(_apply_steal_transfer(g)) }
               ELSE { _clear_pending(g) }
          [] t = "ASSASSINATE" ->
               IF g.pending_blocker = None
               THEN { _clear_pending(_lose_influence(g, g.pending_action.target)) }
               ELSE { _clear_pending(AddCoins(g, g.pending_action.actor, assassinate_cost)) }
          [] OTHER -> { g }

\* GameState._apply_pass
_apply_pass(g, action) ==
    LET t == g.pending_action.type
    IN  CASE t = "FOREIGN_AID" ->
               IF g.pending_blocker = None
               THEN { _clear_pending(AddCoins(g, g.pending_action.actor, 2)) }
               ELSE { _clear_pending(g) }
          [] t = "TAX" ->
               { _clear_pending(AddCoins(g, g.pending_action.actor, 3)) }
          [] t = "EXCHANGE" ->
               { _clear_pending(h) : h \in _perform_exchange(g, g.pending_action.actor) }
          [] t = "STEAL" ->
               IF g.pending_blocker = None
               THEN { _clear_pending(_apply_steal_transfer(g)) }
               ELSE { _clear_pending(g) }
          [] t = "ASSASSINATE" ->
               IF g.pending_blocker = None
               THEN { _clear_pending(_lose_influence(g, g.pending_action.target)) }
               ELSE { _clear_pending(g) }
          [] OTHER -> { g }

\* mutant of ChallengeForeignAid: the challenger pays for a bluffed block too
ChallengeForeignAid_ChallengerLoses(g, action) ==
    LET challenger == action.actor
        blocker == g.pending_blocker
    IN  IF blocker = None \/ g.pending_block_role # "Duke" THEN {}
        ELSE IF _player_has_role(g, blocker, "Duke")
        THEN { _clear_pending(_lose_influence(h, challenger)) :
                 h \in _truthful_reveal(g, blocker, "Duke") }
        ELSE { _clear_pending(AddCoins(_lose_influence(g, challenger), g.pending_action.actor, 2)) }

\* _apply_challenge, pending FOREIGN_AID: the Duke block is challenged
ChallengeForeignAid(g, action) ==
    LET challenger == action.actor
        blocker == g.pending_blocker
    IN  IF blocker = None \/ g.pending_block_role # "Duke" THEN {}
        ELSE IF _player_has_role(g, blocker, "Duke")
        THEN { _clear_pending(_lose_influence(h, challenger)) :
                 h \in _truthful_reveal(g, blocker, "Duke") }
        ELSE { _clear_pending(AddCoins(_lose_influence(g, blocker), g.pending_action.actor, 2)) }

\* mutant of ChallengeTax: a caught bluff still collects the tax
ChallengeTax_BluffPaid(g, action) ==
    LET challenger == action.actor
        actor == g.pending_action.actor
    IN  IF _player_has_role(g, actor, "Duke")
        THEN { _clear_pending(AddCoins(_lose_influence(h, challenger), actor, 3)) :
                 h \in _truthful_reveal(g, actor, "Duke") }
        ELSE { _clear_pending(AddCoins(_lose_influence(g, actor), actor, 3)) }

\* _apply_challenge, pending TAX: the Duke claim is challenged
ChallengeTax(g, action) ==
    LET challenger == action.actor
        actor == g.pending_action.actor
    IN  IF _player_has_role(g, actor, "Duke")
        THEN { _clear_pending(AddCoins(_lose_influence(h, challenger), actor, 3)) :
                 h \in _truthful_reveal(g, actor, "Duke") }
        ELSE { _clear_pending(_lose_influence(g, actor)) }

\* _apply_challenge, pending EXCHANGE: the Ambassador claim is challenged
ChallengeExchange(g, action) ==
    LET challenger == action.actor
        actor == g.pending_action.actor
    IN  IF _player_has_role(g, actor, "Ambassador")
        THEN UNION { { _clear_pending(h2) :
                         h2 \in _perform_exchange(_lose_influence(h, challenger), actor) } :
                     h \in _truthful_reveal(g, actor, "Ambassador") }
        ELSE { _clear_pending(_lose_influence(g, actor)) }

\* _apply_challenge, pending STEAL: the Captain claim or the block is challenged
ChallengeSteal(g, action) ==
    LET challenger == action.actor
        actor == g.pending_action.actor
        target == g.pending_action.target
        blocker == g.pending_blocker
    IN  IF target = None THEN {}
        ELSE IF blocker = None
        THEN IF _player_has_role(g, actor, "Captain")
             THEN { _clear_pending(_apply_steal_transfer(_lose_influence(h, challenger))) :
                      h \in _truthful_reveal(g, actor, "Captain") }
             ELSE { _clear_pending(_lose_influence(g, actor)) }
        ELSE IF g.pending_block_role = "Captain"
        THEN IF _player_has_role(g, blocker, "Captain")
             THEN { _clear_pending(_lose_influence(h, challenger)) :
                      h \in _truthful_reveal(g, blocker, "Captain") }
             ELSE { _clear_pending(_apply_steal_transfer(_lose_influence(g, blocker))) }
        ELSE IF g.pending_block_role = "Ambassador"
        THEN IF _player_has_role(g, blocker, "Ambassador")
             THEN { _clear_pending(_lose_influence(h, challenger)) :
                      h \in _truthful_reveal(g, blocker, "Ambassador") }
             ELSE { _clear_pending(_apply_steal_transfer(_lose_influence(g, blocker))) }
        ELSE { g }

\* _apply_challenge, pending ASSASSINATE: the Assassin claim or the block is challenged
ChallengeAssassinate(g, action) ==
    LET challenger == action.actor
        actor == g.pending_action.actor
        target == g.pending_action.target
        blocker == g.pending_blocker
    IN  IF target = None THEN {}
        ELSE IF blocker = None
        THEN IF _player_has_role(g, actor, "Assassin")
             THEN { _clear_pending(_lose_influence(_lose_influence(h, challenger), target)) :
                      h \in _truthful_reveal(g, actor, "Assassin") }
             ELSE { _clear_pending(_lose_influence(g, actor)) }
        ELSE IF g.pending_block_role # "Contessa" THEN {}
        ELSE IF _player_has_role(g, blocker, "Contessa")
        THEN { _clear_pending(_lose_influence(h, challenger)) :
                 h \in _truthful_reveal(g, blocker, "Contessa") }
        ELSE { _clear_pending(_lose_influence(_lose_influence(g, blocker), target)) }

\* GameState._apply_challenge
_apply_challenge(g, action) ==
    CASE g.pending_action.type = "FOREIGN_AID" -> ChallengeForeignAid(g, action)
      [] g.pending_action.type = "TAX" -> ChallengeTax(g, action)
      [] g.pending_action.type = "EXCHANGE" -> ChallengeExchange(g, action)
      [] g.pending_action.type = "STEAL" -> ChallengeSteal(g, action)
      [] g.pending_action.type = "ASSASSINATE" -> ChallengeAssassinate(g, action)
      [] OTHER -> { g }

\* the if/elif chain of GameState.apply
Dispatch(g, action) ==
    CASE action.type = "INCOME" -> _apply_income(g, action)
      [] action.type = "FOREIGN_AID" -> _start_foreign_aid_interaction(g, action)
      [] action.type = "COUP" -> _apply_coup(g, action)
      [] action.type = "PASS" -> _apply_pass(g, action)
      [] action.type = "BLOCK_FOREIGN_AID" -> _apply_block_foreign_aid(g, action)
      [] action.type = "BLOCK_ASSASSINATE" -> _apply_block_assassinate(g, action)
      [] action.type = "BLOCK_STEAL_CAPTAIN" -> _apply_block_steal_captain(g, action)
      [] action.type = "BLOCK_STEAL_AMBASSADOR" -> _apply_block_steal_ambassador(g, action)
      [] action.type = "CHALLENGE" -> _apply_challenge(g, action)
      [] action.type = "TAX" -> _start_tax_interaction(g, action)
      [] action.type = "EXCHANGE" -> _start_exchange_interaction(g, action)
      [] action.type = "STEAL" -> _start_steal_interaction(g, action)
      [] action.type = "ASSASSINATE" -> _start_assassinate_interaction(g, action)
      [] OTHER -> {}

\* mutant of AdvanceTurn: the turn advances while an interaction is pending
AdvanceTurn_IgnoresPending(g) == IF winner(g) = None THEN next_player(g) ELSE g

\* the end of GameState.apply: advance the turn if the game is not over
AdvanceTurn(g) ==
    IF winner(g) = None /\ g.pending_action = NoAction /\ g.awaiting_response_from = None
    THEN next_player(g)
    ELSE g

\* mutant of apply: the action is dispatched without the asserts
apply_NoLegalCheck(g, action) == { AdvanceTurn(h) : h \in Dispatch(g, action) }

\* GameState.apply on an action the asserts accept: the games it can leave
apply(g, action) ==
    IF ~InList(action, legal_actions(g)) THEN {}
    ELSE IF g.pending_action = NoAction /\ action.actor # g.current_player THEN {}
    ELSE { AdvanceTurn(h) : h \in Dispatch(g, action) }

(* ---------------- the state machine ---------------- *)

\* an empty dict
EmptyDict == [k \in {} |-> 0]

\* no file at the checkpoint path
NoFile == [nodes |-> EmptyDict, config |-> EmptyDict, written |-> FALSE]

\* no value (of a float that has not been computed)
NoValue == << >>

\* no evaluate() call
NoEvaluation == [episodes |-> 0, playing |-> FALSE, total |-> NoValue, ws |-> << >>,
                 adds |-> << >>, result |-> NoValue]

\* neither evaluate() nor iterate() is running
NoRun ==
    /\ evaluation = NoEvaluation
    /\ traversals = << >>
    /\ frames = << >>
    /\ objs = EmptyDict
    /\ ret = NoValue

\* no MCCFRSolver has been constructed: the engine is used on its own
NoSolver ==
    /\ NoRun
    /\ nodes = EmptyDict
    /\ max_depth = 0
    /\ traversal_mode = "None"
    /\ ckpt = NoFile
    /\ probs = << >>
    /\ at_save = NoFile
    /\ op = "None"

\* Hands the deal of _setup can give to consecutive seats (any hands are possible:
\* the deck is shuffled with the constructor's seed).  Seat p gets row k + p.
HandRows ==
    << << "Duke", "Assassin" >>,
       << "Captain", "Contessa" >>,
       << "Ambassador", "Ambassador" >>,
       << "Ambassador", "Duke" >>,
       << "Contessa", "Captain" >>,
       << "Assassin", "Duke" >> >>

\* Coins of consecutive seats: starting_coins, and counts that earlier turns
\* (Income, Foreign Aid, Tax, Steal, a blocked Assassinate) leave.
CoinRows == << starting_coins, 1, 7, 10, 0, 3, 9 >>

\* Whether a seat has already lost its first card (to a Coup, or to a challenge
\* it lost), which leaves the deck as dealt.
LostRows == << FALSE, TRUE, FALSE >>

Row(rows, k, p) == rows[((k + p) % Len(rows)) + 1]

\* the deck after the deal: full_deck() minus the cards dealt, in shuffled order
DeckAfterDeal(n, hands) ==
    [ pool |-> [r \in Roles |->
                   deck_counts[r]
                       - Cardinality({pi \in (0..(n - 1)) \X (1..cards_per_player) :
                                         hands[pi[1]][pi[2]] = r})],
      tail |-> << >> ]

\* GameState.__init__ / _setup, and the turns played before the exploration starts
Init ==
    /\ num_players \in 2..MaxPlayers
    /\ \E kh \in 0..(Len(HandRows) - 1), kc \in 0..(Len(CoinRows) - 1),
          kl \in 0..(Len(LostRows) - 1) :
          LET hands == [p \in 0..(num_players - 1) |-> Row(HandRows, kh, p)]
          IN  /\ players = [p \in 0..(num_players - 1) |->
                               [coins |-> Row(CoinRows, kc, p),
                                hand |-> IF Row(LostRows, kl, p)
                                         THEN Tail(hands[p]) ELSE hands[p],
                                revealed |-> IF Row(LostRows, kl, p)
                                             THEN << Head(hands[p]) >> ELSE << >>]]
              /\ deck = DeckAfterDeal(num_players, hands)
    /\ current_player = 0
    /\ pending_action = NoAction
    /\ pending_blocker = None
    /\ pending_block_role = NoRole
    /\ awaiting_response_from = None
    /\ pending_claim_role = NoRole
    /\ last = NoAction
    /\ prev = G
    /\ steps = 0
    /\ raised = "None"
    /\ NoSolver

\* the game becomes h by the call apply(action)
Become(h, action) ==
    /\ num_players' = h.num_players
    /\ players' = h.players
    /\ deck' = h.deck
    /\ current_player' = h.current_player
    /\ pending_action' = h.pending_action
    /\ pending_blocker' = h.pending_blocker
    /\ pending_block_role' = h.pending_block_role
    /\ awaiting_response_from' = h.awaiting_response_from
    /\ pending_claim_role' = h.pending_claim_role
    /\ last' = action
    /\ prev' = G
    /\ steps' = steps + 1
    /\ raised' = "None"
    /\ UNCHANGED solver_vars

\* a caller (the solver, a test) makes another call: no call has raised, which
\* nothing catches, and the exploration is within its bound
CallPossible == steps < MaxSteps /\ raised = "None"

\* the legal actions of type t, which a caller (the solver, a test) may apply
LegalOfType(t) ==
    {legal_actions(G)[i] : i \in {j \in 1..Len(legal_actions(G)) : legal_actions(G)[j].type = t}}

ApplyIncome ==
    /\ CallPossible
    /\ \E a \in LegalOfType("INCOME") : \E h \in apply(G, a) : Become(h, a)

ApplyForeignAid ==
    /\ CallPossible
    /\ \E a \in LegalOfType("FOREIGN_AID") : \E h \in apply(G, a) : Become(h, a)

ApplyCoup ==
    /\ CallPossible
    /\ \E a \in LegalOfType("COUP") : \E h \in apply(G, a) : Become(h, a)

ApplyTax ==
    /\ CallPossible
    /\ \E a \in LegalOfType("TAX") : \E h \in apply(G, a) : Become(h, a)

ApplyExchange ==
    /\ CallPossible
    /\ \E a \in LegalOfType("EXCHANGE") : \E h \in apply(G, a) : Become(h, a)

ApplySteal ==
    /\ CallPossible
    /\ \E a \in LegalOfType("STEAL") : \E h \in apply(G, a) : Become(h, a)

ApplyAssassinate ==
    /\ CallPossible
    /\ \E a \in LegalOfType("ASSASSINATE") : \E h \in apply(G, a) : Become(h, a)

ApplyPass ==
    /\ CallPossible
    /\ \E a \in LegalOfType("PASS") : \E h \in apply(G, a) : Become(h, a)

ApplyChallenge ==
    /\ CallPossible
    /\ \E a \in LegalOfType("CHALLENGE") : \E h \in apply(G, a) : Become(h, a)

ApplyBlockForeignAid ==
    /\ CallPossible
    /\ \E a \in LegalOfType("BLOCK_FOREIGN_AID") : \E h \in apply(G, a) : Become(h, a)

ApplyBlockAssassinate ==
    /\ CallPossible
    /\ \E a \in LegalOfType("BLOCK_ASSASSINATE") : \E h \in apply(G, a) : Become(h, a)

ApplyBlockStealCaptain ==
    /\ CallPossible
    /\ \E a \in LegalOfType("BLOCK_STEAL_CAPTAIN") : \E h \in apply(G, a) : Become(h, a)

ApplyBlockStealAmbassador ==
    /\ CallPossible
    /\ \E a \in LegalOfType("BLOCK_STEAL_AMBASSADOR") : \E h \in apply(G, a) : Become(h, a)

\* every action value a caller can pass to apply
AllActions(g) ==
    {Action(a, t, tg) : a \in Seats(g), t \in ActionType, tg \in Seats(g) \cup {None}}

\* the primary action types
PrimaryActionTypes ==
    {"INCOME", "FOREIGN_AID", "COUP", "TAX", "ASSASSINATE", "STEAL", "EXCHANGE"}

\* the action values that are not in legal_actions() of g
IllegalActions(g) ==
    LET legal == legal_actions(g)
    IN  {a \in AllActions(g) : ~InList(a, legal)}

\* why action is not in legal_actions() of g
RejectionKind(g, action) ==
    IF g.pending_action # NoAction
    THEN IF action.type \in PrimaryActionTypes THEN "primary_while_pending"
         ELSE IF action.actor # g.awaiting_response_from THEN "wrong_responder"
         ELSE "not_offered"
    ELSE IF winner(g) # None THEN "terminal"
    ELSE IF action.actor # g.current_player THEN "wrong_actor"
    ELSE IF action.type \in PrimaryActionTypes THEN "wrong_target_or_cost"
    ELSE "not_offered"

\* apply(a) with an action value that is not in legal_actions(), for each kind
\* of such values.  The assert of apply raises after legal_actions(), which
\* assigns nothing, and before any handler: the call leaves the game as it was.
\* (Were a call accepted, the game would become one of its outcomes like after
\* any other call.)
ApplyIllegal ==
    /\ CallPossible
    /\ LET g == G
           illegal == IllegalActions(g)
           accepted == {a \in illegal : apply(g, a) # {}}
       IN  IF accepted = {}
           THEN /\ \E k \in {RejectionKind(g, a) : a \in illegal} : raised' = k
                /\ UNCHANGED << game_vars, solver_vars >>
                /\ last' = NoAction
                /\ prev' = g
                /\ steps' = steps
           ELSE \E a \in accepted : \E h \in apply(g, a) : Become(h, a)

Next ==
    \/ ApplyIncome
    \/ ApplyForeignAid
    \/ ApplyCoup
    \/ ApplyTax
    \/ ApplyExchange
    \/ ApplySteal
    \/ ApplyAssassinate
    \/ ApplyPass
    \/ ApplyChallenge
    \/ ApplyBlockForeignAid
    \/ ApplyBlockAssassinate
    \/ ApplyBlockStealCaptain
    \/ ApplyBlockStealAmbassador

\* the engine driven by callers that pass elements of legal_actions() only, as
\* the solver and the tests do
Spec == Init /\ [][Next]_vars

\* the engine driven by any caller: every call of Next, and calls with action
\* values that are not in legal_actions()
NextCalls == Next \/ ApplyIllegal

SpecCalls == Init /\ [][NextCalls]_vars

(* ---------------- vocabulary of the properties ---------------- *)

\* an apply() call has been made: prev and last describe it
Acted == last # NoAction

RECURSIVE SumUpTo(_, _)
SumUpTo(f, n) == IF n < 0 THEN 0 ELSE f[n] + SumUpTo(f, n - 1)

\* copies of role r in all hands, all revealed piles and the deck of g
RoleCopies(g, r) ==
    SumUpTo([p \in Seats(g) |-> Count(g.players[p].hand, r) + Count(g.players[p].revealed, r)],
            g.num_players - 1)
        + DeckCount(g.deck, r)

\* the five pending fields of g are null
PendingAllNull(g) ==
    /\ g.pending_action = NoAction
    /\ g.pending_claim_role = NoRole
    /\ g.pending_blocker = None
    /\ g.pending_block_role = NoRole
    /\ g.awaiting_response_from = None

\* the latest call answered an open interaction without declaring a block
LastResolved == Acted /\ prev.pending_action # NoAction /\ last.type \in {"PASS", "CHALLENGE"}

\* the player whose primary action the latest call made or answered
PrimaryActor == IF prev.pending_action # NoAction THEN prev.pending_action.actor ELSE last.actor

\* the nearest alive seat of g clockwise after seat x
NextAliveAfter(g, x) ==
    LET dist(s) == ((s - x + g.num_players - 1) % g.num_players) + 1
    IN  CHOOSE s \in alive_players(g) : \A u \in alive_players(g) : dist(s) <= dist(u)

(* ---------------- C1 ---------------- *)

\* C1: role census.  In every reachable state, for every role the copies in all
\* hands, all revealed piles and the deck number exactly 3.
C1_RoleCensus == \A r \in Roles : RoleCopies(G, r) = deck_counts[r]

(* ---------------- C2 ---------------- *)

\* C2: the pending fields are all null or describe one consistent stage:
\* pending_action is set iff awaiting_response_from is set, pending_blocker iff
\* pending_block_role, and a blocker is never the primary actor, who is then the
\* one awaited; a call that resolves an interaction leaves all five fields null.
C2_PendingConsistent ==
    /\ PendingAllNull(G) \/ pending_action # NoAction
    /\ (pending_action # NoAction) <=> (awaiting_response_from # None)
    /\ (pending_blocker # None) <=> (pending_block_role # NoRole)
    /\ pending_blocker # None =>
          /\ pending_action # NoAction
          /\ pending_blocker # pending_action.actor
          /\ awaiting_response_from = pending_action.actor
    /\ LastResolved => PendingAllNull(G)

\* a challenged block has been resolved
C2_Witness ==
    LastResolved /\ prev.pending_blocker # None /\ last.type = "CHALLENGE" /\ PendingAllNull(G)

(* ---------------- C3 ---------------- *)

\* C3: while there is no winner, idle or in a response window at either stage,
\* legal_actions() is not empty.
C3_LegalNonEmpty == winner(G) = None => Len(legal_actions(G)) > 0

\* a response window after a declared block, nobody has won
C3_Witness ==
    /\ winner(G) = None
    /\ pending_action.type = "ASSASSINATE"
    /\ pending_blocker # None
    /\ Len(legal_actions(G)) = 2

(* ---------------- C4 ---------------- *)

\* C4: a state with a winner has exactly that one player alive, no legal action,
\* no pending interaction, and rejects every apply; no call was ever made from
\* such a state, so the winner and the state never change afterwards.
C4_TerminalAbsorbing ==
    /\ winner(G) # None =>
          /\ alive_players(G) = {winner(G)}
          /\ legal_actions(G) = << >>
          /\ \A a \in AllActions(G) : apply(G, a) = {}
          /\ PendingAllNull(G)
    /\ Acted => winner(prev) = None

\* a game was won while the exploration could still continue
C4_Witness == winner(G) # None /\ Acted /\ steps < MaxSteps

(* ---------------- C5 ---------------- *)

\* C5: with no winner and no pending interaction, current_player is the seat of
\* a player with a non-empty hand.
C5_TurnPointer ==
    winner(G) = None /\ pending_action = NoAction =>
        /\ current_player \in Seats(G)
        /\ Len(players[current_player].hand) > 0

\* the previous actor lost their last card to a challenge of their own bluff
C5_Witness ==
    /\ LastResolved
    /\ last.type = "CHALLENGE"
    /\ prev.pending_blocker = None
    /\ players[prev.pending_action.actor].hand = << >>
    /\ winner(G) = None
    /\ pending_action = NoAction

(* ---------------- C6 ---------------- *)

\* C6: coins are never negative; Coup is applied only with at least 7 coins,
\* Assassinate only with at least 3, and a resolved Steal takes from the target
\* no more than the target had.
C6_CoinsNonNegative ==
    /\ \A p \in Seats(G) : players[p].coins >= 0
    /\ Acted /\ last.type = "COUP" => prev.players[last.actor].coins >= 7
    /\ Acted /\ last.type = "ASSASSINATE" => prev.players[last.actor].coins >= 3
    /\ LastResolved /\ prev.pending_action.type = "STEAL" =>
          LET tg == prev.pending_action.target
          IN  prev.players[tg].coins - players[tg].coins \in 0..prev.players[tg].coins

\* a Steal took the only coin of its target
C6_Witness ==
    /\ LastResolved
    /\ prev.pending_action.type = "STEAL"
    /\ prev.players[prev.pending_action.target].coins = 1
    /\ players[prev.pending_action.target].coins = 0

(* ---------------- C7 ---------------- *)

\* C7: a call that leaves an interaction pending (it opened one or declared a
\* block) or leaves a winner keeps current_player; any other call makes
\* current_player the next alive player clockwise from the primary actor, which
\* with two players is the primary actor's opponent.
C7_TurnProgression ==
    Acted =>
        IF pending_action # NoAction \/ winner(G) # None
        THEN current_player = prev.current_player
        ELSE /\ PrimaryActor = prev.current_player
             /\ current_player = NextAliveAfter(G, PrimaryActor)
             /\ num_players = 2 => current_player = 1 - PrimaryActor

\* three seats: the turn passed over an eliminated player
C7_Witness ==
    /\ LastResolved
    /\ num_players = 3
    /\ winner(G) = None
    /\ pending_action = NoAction
    /\ current_player # (PrimaryActor + 1) % 3

(* ---------------- vocabulary of the resolution properties ---------------- *)

\* player record b is player record a after losing n influences: the first cards
\* of the hand, as many as there are up to n, moved to the end of the revealed pile
LostCards(a, b, n) ==
    LET k == Min(n, Len(a.hand))
    IN  /\ b.hand = SubSeq(a.hand, k + 1, Len(a.hand))
        /\ b.revealed = a.revealed \o SubSeq(a.hand, 1, k)

\* seat p's cards went from those of game g0 to those of game g1 by a truthful
\* reveal of role: one copy left the hand for the deck and the card c drawn back
\* was appended; nothing went to the revealed pile
RevealedAndRedrew(g0, g1, p, role) ==
    /\ InList(role, g0.players[p].hand)
    /\ g1.players[p].revealed = g0.players[p].revealed
    /\ \E c \in Roles :
          /\ g1.players[p].hand = Append(RemoveFirst(g0.players[p].hand, role), c)
          /\ \A r \in Roles :
                DeckCount(g1.deck, r) =
                    DeckCount(g0.deck, r) + (IF r = role THEN 1 ELSE 0) - (IF r = c THEN 1 ELSE 0)

\* seat p's hand in g1 is what an Exchange keeps after a truthful reveal of the
\* Ambassador in g0: the first cards_per_player, in role order, of the hand, the
\* card drawn back and the cards drawn from the top
RevealedAndExchanged(g0, g1, p) ==
    /\ InList("Ambassador", g0.players[p].hand)
    /\ g1.players[p].revealed = g0.players[p].revealed
    /\ \E c \in Roles : \E drawn \in [1..Min(2, DeckLen(g0.deck)) -> Roles] :
          g1.players[p].hand =
              Prefix(SortedByValue(Append(RemoveFirst(g0.players[p].hand, "Ambassador"), c)
                                       \o drawn),
                     cards_per_player)

\* seat p's hand in g1 is what an Exchange keeps of its hand in g0 and the cards
\* drawn from the top
Exchanged(g0, g1, p) ==
    /\ g1.players[p].revealed = g0.players[p].revealed
    /\ \E drawn \in [1..Min(2, DeckLen(g0.deck)) -> Roles] :
          g1.players[p].hand =
              Prefix(SortedByValue(g0.players[p].hand \o drawn), cards_per_player)

\* the coins of g1 are those of g0 after seat p gained n
CoinsGained(g0, g1, p, n) ==
    \A q \in Seats(g0) :
        g1.players[q].coins = g0.players[q].coins + (IF q = p THEN n ELSE 0)

\* the coins of g1 are those of g0 after a Steal by actor from target took effect
CoinsStolen(g0, g1, actor, target) ==
    LET amt == Min(2, g0.players[target].coins)
    IN  \A q \in Seats(g0) :
            g1.players[q].coins =
                g0.players[q].coins + (IF q = actor THEN amt ELSE 0)
                                    - (IF q = target THEN amt ELSE 0)

\* the latest call was a Challenge at Stage A: of the claim of a primary action
StageAChallenge ==
    /\ Acted
    /\ last.type = "CHALLENGE"
    /\ prev.pending_blocker = None
    /\ prev.pending_action.type \in {"TAX", "EXCHANGE", "STEAL", "ASSASSINATE"}

\* the latest call was a Challenge at Stage B: of a declared block
StageBChallenge ==
    /\ Acted
    /\ last.type = "CHALLENGE"
    /\ prev.pending_blocker # None
    /\ prev.pending_action.type \in {"FOREIGN_AID", "STEAL", "ASSASSINATE"}

\* the latest call was a Pass at Stage A
StageAPass ==
    /\ Acted
    /\ last.type = "PASS"
    /\ prev.pending_action # NoAction
    /\ prev.pending_blocker = None

\* the primary actor of the interaction the latest call answered held the role claimed
ClaimTruthful ==
    InList(claims(prev.pending_action.type), prev.players[prev.pending_action.actor].hand)

\* the blocker of the interaction the latest call answered held the role of the block
BlockTruthful == InList(prev.pending_block_role, prev.players[prev.pending_blocker].hand)

(* ---------------- C8 ---------------- *)

\* C8: a Challenge at Stage A of a Tax, Exchange, Steal or Assassinate.  Claim
\* truthful: the actor truthfully reveals the role (it goes to the deck, a card is
\* drawn back), the challenger loses one influence and the action takes effect
\* (+3 coins, the exchange, the steal transfer, the target loses one influence).
\* Claim bluffed: the actor loses one influence and nothing else changes.
\* Either way all pending fields are null afterwards.
C8_ChallengeStageA ==
    StageAChallenge =>
        LET a == prev.pending_action
            ch == last.actor
            lost(q) == (IF q = ch THEN 1 ELSE 0)
                         + (IF a.type = "ASSASSINATE" /\ q = a.target THEN 1 ELSE 0)
        IN  /\ PendingAllNull(G)
            /\ ch # a.actor
            /\ IF ClaimTruthful
               THEN /\ \A q \in Seats(G) \ {a.actor} :
                          LostCards(prev.players[q], players[q], lost(q))
                    /\ IF a.type = "EXCHANGE"
                       THEN RevealedAndExchanged(prev, G, a.actor)
                       ELSE RevealedAndRedrew(prev, G, a.actor, claims(a.type))
                    /\ CASE a.type = "TAX" -> CoinsGained(prev, G, a.actor, 3)
                         [] a.type = "STEAL" -> CoinsStolen(prev, G, a.actor, a.target)
                         [] OTHER -> CoinsGained(prev, G, a.actor, 0)
               ELSE /\ LostCards(prev.players[a.actor], players[a.actor], 1)
                    /\ \A q \in Seats(G) \ {a.actor} : players[q] = prev.players[q]
                    /\ CoinsGained(prev, G, a.actor, 0)
                    /\ deck = prev.deck

\* a truthful Steal was challenged and coins moved
C8_Witness ==
    /\ StageAChallenge
    /\ prev.pending_action.type = "STEAL"
    /\ ClaimTruthful
    /\ players[prev.pending_action.actor].coins > prev.players[prev.pending_action.actor].coins
    /\ Len(players[last.actor].revealed) = Len(prev.players[last.actor].revealed) + 1

(* ---------------- C9 ---------------- *)

\* C9: a Challenge at Stage B, of a block of Foreign Aid, Steal or Assassinate,
\* made by the primary actor.  Block truthful: the blocker truthfully reveals the
\* role, the actor loses one influence and the action has no effect.  Block
\* bluffed: the blocker loses one influence and the action takes effect (+2 coins,
\* the steal transfer, the target loses one further influence).  Either way all
\* pending fields are null afterwards.
C9_ChallengeStageB ==
    StageBChallenge =>
        LET a == prev.pending_action
            b == prev.pending_blocker
            lost(q) == (IF q = b THEN 1 ELSE 0)
                         + (IF a.type = "ASSASSINATE" /\ q = a.target THEN 1 ELSE 0)
        IN  /\ PendingAllNull(G)
            /\ last.actor = a.actor
            /\ b # a.actor
            /\ IF BlockTruthful
               THEN /\ RevealedAndRedrew(prev, G, b, prev.pending_block_role)
                    /\ \A q \in Seats(G) \ {b} :
                          LostCards(prev.players[q], players[q], IF q = a.actor THEN 1 ELSE 0)
                    /\ CoinsGained(prev, G, a.actor, 0)
               ELSE /\ \A q \in Seats(G) : LostCards(prev.players[q], players[q], lost(q))
                    /\ deck = prev.deck
                    /\ CASE a.type = "FOREIGN_AID" -> CoinsGained(prev, G, a.actor, 2)
                         [] a.type = "STEAL" -> CoinsStolen(prev, G, a.actor, a.target)
                         [] OTHER -> CoinsGained(prev, G, a.actor, 0)

\* a bluffed Contessa block was challenged: the target lost two influences
C9_Witness ==
    /\ StageBChallenge
    /\ prev.pending_action.type = "ASSASSINATE"
    /\ ~BlockTruthful
    /\ Len(prev.players[prev.pending_action.target].hand) = 2
    /\ Len(players[prev.pending_action.target].revealed) = 2

(* ---------------- C10 ---------------- *)

\* C10: a Pass at Stage A makes the primary action succeed: the actor gains
\* exactly 2 coins for Foreign Aid and 3 for Tax, the Exchange is performed,
\* min(2, target coins) move for Steal, the target loses exactly one influence
\* for Assassinate; no other coins or hands change, and all pending fields are
\* null afterwards.
C10_PassStageA ==
    StageAPass =>
        LET a == prev.pending_action
        IN  /\ PendingAllNull(G)
            /\ CASE a.type = "FOREIGN_AID" -> CoinsGained(prev, G, a.actor, 2)
                 [] a.type = "TAX" -> CoinsGained(prev, G, a.actor, 3)
                 [] a.type = "STEAL" -> CoinsStolen(prev, G, a.actor, a.target)
                 [] OTHER -> CoinsGained(prev, G, a.actor, 0)
            /\ CASE a.type = "EXCHANGE" ->
                      /\ Exchanged(prev, G, a.actor)
                      /\ \A q \in Seats(G) \ {a.actor} :
                            LostCards(prev.players[q], players[q], 0)
                 [] a.type = "ASSASSINATE" ->
                      /\ Len(prev.players[a.target].hand) >= 1
                      /\ \A q \in Seats(G) :
                            LostCards(prev.players[q], players[q],
                                      IF q = a.target THEN 1 ELSE 0)
                      /\ deck = prev.deck
                 [] OTHER ->
                      /\ \A q \in Seats(G) : LostCards(prev.players[q], players[q], 0)
                      /\ deck = prev.deck

\* the target of an Assassinate passed and lost the first of two cards
C10_Witness ==
    /\ StageAPass
    /\ prev.pending_action.type = "ASSASSINATE"
    /\ Len(prev.players[prev.pending_action.target].hand) = 2
    /\ Len(players[prev.pending_action.target].hand) = 1

(* ---------------- C11 ---------------- *)

\* the latest call was a Pass at Stage B: the primary actor accepted a block
StageBPass ==
    /\ Acted
    /\ last.type = "PASS"
    /\ prev.pending_action # NoAction
    /\ prev.pending_blocker # None

\* C11: a Pass at Stage B is made by the primary actor and changes nothing but
\* the interaction and the turn: every player's coins, hand and revealed pile and
\* the deck are as before the Pass (the action has no effect, the Assassinate
\* cost is not given back), all pending fields are null, and current_player has
\* moved to the next alive player after the primary actor.
C11_PassStageB ==
    StageBPass =>
        /\ last.actor = prev.pending_action.actor
        /\ players = prev.players
        /\ deck = prev.deck
        /\ PendingAllNull(G)
        /\ winner(G) = None
        /\ current_player # prev.current_player
        /\ current_player = NextAliveAfter(G, prev.pending_action.actor)

\* the actor of an Assassinate accepted the Contessa block
C11_Witness ==
    /\ StageBPass
    /\ prev.pending_action.type = "ASSASSINATE"
    /\ prev.pending_block_role = "Contessa"
    /\ players = prev.players

(* ---------------- C12 ---------------- *)

\* the response types the rules give to Stage A of a primary action of type t
StageAResponseTypes(t) ==
    CASE t = "FOREIGN_AID" -> {"PASS", "BLOCK_FOREIGN_AID"}
      [] t = "TAX" -> {"PASS", "CHALLENGE"}
      [] t = "EXCHANGE" -> {"PASS", "CHALLENGE"}
      [] t = "STEAL" -> {"PASS", "BLOCK_STEAL_CAPTAIN", "BLOCK_STEAL_AMBASSADOR", "CHALLENGE"}
      [] t = "ASSASSINATE" -> {"PASS", "BLOCK_ASSASSINATE", "CHALLENGE"}
      [] OTHER -> {}

\* the elements of a list
Range(s) == {s[i] : i \in 1..Len(s)}

\* a response window is open and no block has been declared
StageA == pending_action # NoAction /\ pending_blocker = None

\* C12: at Stage A legal_actions() is exactly, without repetition, one action of
\* each response type of the pending action: {Pass, Block-Foreign-Aid} for
\* Foreign Aid, {Pass, Challenge} for Tax and Exchange, {Pass, Block-Steal-Captain,
\* Block-Steal-Ambassador, Challenge} for Steal, {Pass, Block-Assassinate,
\* Challenge} for Assassinate.  Each has actor awaiting_response_from and no
\* target; awaiting_response_from is the target of a targeted action and the
\* nearest alive opponent of an untargeted one, is alive and is never the
\* primary actor.
C12_StageAResponses ==
    StageA =>
        LET a == pending_action
            r == awaiting_response_from
            types == StageAResponseTypes(a.type)
        IN  /\ a.type \in {"FOREIGN_AID", "TAX", "EXCHANGE", "STEAL", "ASSASSINATE"}
            /\ Range(legal_actions(G)) = {Action(r, t, None) : t \in types}
            /\ Len(legal_actions(G)) = Cardinality(types)
            /\ r \in Seats(G)
            /\ r # a.actor
            /\ alive(players[r])
            /\ r = (IF a.type \in {"STEAL", "ASSASSINATE"} THEN a.target
                    ELSE NextAliveAfter(G, a.actor))
            /\ num_players = 2 => r = 1 - a.actor

\* a Steal has been declared: its target has four responses
C12_Witness ==
    /\ StageA
    /\ pending_action.type = "STEAL"
    /\ Len(legal_actions(G)) = 4
    /\ awaiting_response_from = pending_action.target

(* ---------------- C13 ---------------- *)

\* the block responses and the role each claims
BlockTypes ==
    {"BLOCK_FOREIGN_AID", "BLOCK_ASSASSINATE", "BLOCK_STEAL_CAPTAIN", "BLOCK_STEAL_AMBASSADOR"}

BlockRoleOf(t) ==
    CASE t = "BLOCK_FOREIGN_AID" -> "Duke"
      [] t = "BLOCK_ASSASSINATE" -> "Contessa"
      [] t = "BLOCK_STEAL_CAPTAIN" -> "Captain"
      [] t = "BLOCK_STEAL_AMBASSADOR" -> "Ambassador"

\* the latest call declared a block
BlockDeclared == Acted /\ last.type \in BlockTypes

\* C13: a block response leaves Stage B.  pending_blocker is the responder,
\* pending_block_role the role of that block (Duke for Foreign Aid, Contessa for
\* Assassinate, Captain or Ambassador for Steal: a role BaseRules.blocks gives to
\* the pending action), awaiting_response_from the primary actor; the pending
\* action, its claim, the turn, all coins, hands and revealed piles and the deck
\* are unchanged.  While a block is declared legal_actions() is exactly
\* {Pass, Challenge} by the primary actor, so no block answers a block.
C13_BlockStageB ==
    /\ BlockDeclared =>
          /\ prev.pending_action # NoAction
          /\ prev.pending_blocker = None
          /\ last.actor = prev.awaiting_response_from
          /\ pending_blocker = last.actor
          /\ pending_block_role = BlockRoleOf(last.type)
          /\ pending_block_role \in blocks(prev.pending_action.type)
          /\ awaiting_response_from = prev.pending_action.actor
          /\ pending_action = prev.pending_action
          /\ pending_claim_role = prev.pending_claim_role
          /\ current_player = prev.current_player
          /\ players = prev.players
          /\ deck = prev.deck
    /\ pending_blocker # None =>
          /\ BlockDeclared
          /\ Range(legal_actions(G)) =
                 {Action(pending_action.actor, t, None) : t \in {"PASS", "CHALLENGE"}}
          /\ Len(legal_actions(G)) = 2
          /\ \A i \in 1..Len(legal_actions(G)) : legal_actions(G)[i].type \notin BlockTypes

\* a Steal has been blocked as Ambassador: the actor may pass or challenge
C13_Witness ==
    /\ BlockDeclared
    /\ last.type = "BLOCK_STEAL_AMBASSADOR"
    /\ pending_block_role = "Ambassador"
    /\ awaiting_response_from = pending_action.actor
    /\ Len(legal_actions(G)) = 2

(* ---------------- C14 ---------------- *)

\* no interaction is pending and nobody has won: a primary action is due
Idle == pending_action = NoAction /\ winner(G) = None

\* C14: mandatory coup.  In an idle state where the current player has at least
\* 10 coins legal_actions() is exactly one action: a Coup by the current player
\* against the default target, the nearest alive opponent clockwise.
C14_MandatoryCoup ==
    Idle /\ players[current_player].coins >= 10 =>
        /\ legal_actions(G) = << Action(current_player, "COUP", _default_target(G)) >>
        /\ _default_target(G) = NextAliveAfter(G, current_player)
        /\ _default_target(G) # current_player
        /\ alive(players[_default_target(G)])

\* a player came to the turn with the coins an earlier turn had brought to 10 or more
C14_Witness ==
    /\ Idle
    /\ Acted
    /\ players[current_player].coins >= 10
    /\ Len(legal_actions(G)) = 1

(* ---------------- C15 ---------------- *)

\* the primary action types the rules give a player with c coins
PrimaryTypes(c) ==
    {"INCOME", "FOREIGN_AID", "TAX", "EXCHANGE", "STEAL"}
        \cup (IF c >= 3 THEN {"ASSASSINATE"} ELSE {})
        \cup (IF c >= 7 THEN {"COUP"} ELSE {})

\* C15: in an idle state where the current player has fewer than 10 coins
\* legal_actions() is exactly one action of each of Income, Foreign Aid, Tax,
\* Exchange, Steal (an alive opponent exists whenever nobody has won), Assassinate
\* iff coins >= 3 and Coup iff coins >= 7; every action has the current player as
\* actor; Steal, Assassinate and Coup target the default target and the others
\* have no target.
C15_PrimarySet ==
    Idle /\ players[current_player].coins < 10 =>
        LET c == players[current_player].coins
            tgt == _default_target(G)
            targetOf(t) == IF t \in {"STEAL", "ASSASSINATE", "COUP"} THEN tgt ELSE None
        IN  /\ tgt = NextAliveAfter(G, current_player)
            /\ tgt # current_player
            /\ Range(legal_actions(G)) =
                   {Action(current_player, t, targetOf(t)) : t \in PrimaryTypes(c)}
            /\ Len(legal_actions(G)) = Cardinality(PrimaryTypes(c))

\* a player with 7 to 9 coins at the turn: all seven primary actions
C15_Witness ==
    /\ Idle
    /\ Acted
    /\ players[current_player].coins \in 7..9
    /\ Len(legal_actions(G)) = 7

(* ---------------- C16 ---------------- *)

\* the latest call answered a pending Assassinate (a pass, a block or a challenge)
AssassinateAnswered == Acted /\ prev.pending_action.type = "ASSASSINATE"

\* C16: the Assassinate cost is paid at declaration and never refunded.  The
\* apply of Assassinate takes exactly 3 coins from the actor (and no coins from
\* anybody else); every later call of the interaction - the target's pass, a
\* block, the acceptance of the block, a challenge of the block or of the claim,
\* won or lost - leaves the actor's coins, and everybody's, as they were.
C16_AssassinateCost ==
    /\ Acted /\ last.type = "ASSASSINATE" =>
          /\ prev.players[last.actor].coins >= 3
          /\ CoinsGained(prev, G, last.actor, 0 - 3)
          /\ pending_action = last
    /\ AssassinateAnswered =>
          /\ players[prev.pending_action.actor].coins
                 <= prev.players[prev.pending_action.actor].coins
          /\ CoinsGained(prev, G, prev.pending_action.actor, 0)

\* the Contessa block of an Assassinate was challenged and was truthful
C16_Witness ==
    /\ AssassinateAnswered
    /\ last.type = "CHALLENGE"
    /\ prev.pending_blocker # None
    /\ BlockTruthful
    /\ PendingAllNull(G)

(* ---------------- C17 ---------------- *)

\* the latest call resolved a pending Steal
StealResolved == LastResolved /\ prev.pending_action.type = "STEAL"

\* that Steal took effect: the target passed, or challenged a truthful Captain
\* claim, or the actor challenged a bluffed block
StealTookEffect ==
    IF prev.pending_blocker = None
    THEN last.type = "PASS" \/ ClaimTruthful
    ELSE last.type = "CHALLENGE" /\ ~BlockTruthful

\* C17: whenever a Steal takes effect the amount moved is min(2, the target's
\* coins when it is resolved): the target loses and the actor gains exactly that
\* amount, nobody else's coins change, the sum of the two is unchanged and the
\* target does not go below 0.  A Steal that fails moves no coins.
C17_StealCeiling ==
    StealResolved =>
        LET actor == prev.pending_action.actor
            target == prev.pending_action.target
            amt == Min(2, prev.players[target].coins)
        IN  IF StealTookEffect
            THEN /\ actor # target
                 /\ players[target].coins = prev.players[target].coins - amt
                 /\ players[actor].coins = prev.players[actor].coins + amt
                 /\ players[actor].coins + players[target].coins =
                        prev.players[actor].coins + prev.players[target].coins
                 /\ players[target].coins >= 0
                 /\ \A q \in Seats(G) \ {actor, target} :
                        players[q].coins = prev.players[q].coins
            ELSE CoinsGained(prev, G, actor, 0)

\* a bluffed block of a Steal was challenged; the target had more than 2 coins
C17_Witness ==
    /\ StealResolved
    /\ prev.pending_blocker # None
    /\ StealTookEffect
    /\ prev.players[prev.pending_action.target].coins > 2
    /\ players[prev.pending_action.target].coins = prev.players[prev.pending_action.target].coins - 2

(* ---------------- C18 ---------------- *)

\* the latest call resolved a pending Exchange so that the exchange was performed:
\* the opponent passed, or challenged a truthful Ambassador claim
ExchangePerformed ==
    /\ LastResolved
    /\ prev.pending_action.type = "EXCHANGE"
    /\ last.type = "PASS" \/ ClaimTruthful

\* C18: a performed Exchange returns to the deck as many cards as it drew: the
\* deck has as many cards afterwards as before the two cards were drawn (the
\* truthful reveal of a challenged claim puts one card in and takes one out
\* before the draw), whatever the hand size and the roles in hand and drawn.
C18_ExchangeDeckSize == ExchangePerformed => DeckLen(deck) = DeckLen(prev.deck)

(* ---------------- C20 ---------------- *)

\* the turn has passed on from the actor of the latest call, unless it left a winner
TurnAdvanced ==
    IF winner(G) = None
    THEN current_player = NextAliveAfter(G, last.actor) /\ current_player # last.actor
    ELSE current_player = prev.current_player

\* C20: Income and Coup bypass the interaction state machine.  Income adds
\* exactly 1 coin to the actor and changes no card; Coup takes exactly 7 coins
\* from the actor and moves exactly one card, the first, from the target's hand
\* to the target's revealed pile; no other coins, cards or the deck change.
\* Both are applied in an idle state and leave all pending fields null, and the
\* turn advances in the same apply unless a winner results.
C20_CoupIncomeBypass ==
    /\ Acted /\ last.type = "INCOME" =>
          /\ PendingAllNull(prev)
          /\ last.actor = prev.current_player
          /\ CoinsGained(prev, G, last.actor, 1)
          /\ \A q \in Seats(G) : LostCards(prev.players[q], players[q], 0)
          /\ deck = prev.deck
          /\ PendingAllNull(G)
          /\ winner(G) = None
          /\ TurnAdvanced
    /\ Acted /\ last.type = "COUP" =>
          /\ PendingAllNull(prev)
          /\ last.actor = prev.current_player
          /\ last.target \in Seats(G) \ {last.actor}
          /\ CoinsGained(prev, G, last.actor, 0 - 7)
          /\ Len(prev.players[last.target].hand) >= 1
          /\ \A q \in Seats(G) :
                 LostCards(prev.players[q], players[q], IF q = last.target THEN 1 ELSE 0)
          /\ deck = prev.deck
          /\ PendingAllNull(G)
          /\ TurnAdvanced

\* three seats: a Coup took the target's last card and the turn passed over them
C20_Witness ==
    /\ Acted
    /\ last.type = "COUP"
    /\ num_players = 3
    /\ players[last.target].hand = << >>
    /\ winner(G) = None
    /\ current_player # last.target
    /\ current_player # last.actor

(* ---------------- C19 ---------------- *)

\* the latest apply() call raised
Raised == raised # "None"

\* C19: apply(a) fails for every action value a that is not an element of
\* legal_actions(): every call that took effect was made with an element of
\* legal_actions() of the game before it, and a call that failed has changed no
\* field of the game (coins, hands, revealed piles, deck, current_player, pending
\* fields).  The actions that fail include every primary action while an
\* interaction is pending, every response by a player other than
\* awaiting_response_from, every action with another actor or target than the
\* turn gives, and every action in a terminal state: legal_actions() holds only
\* responses by the one awaited, or primary actions of the current player at
\* the default target, and nothing once there is a winner.
C19_IllegalRejected ==
    /\ Acted => InList(last, legal_actions(prev))
    /\ Raised => G = prev /\ last = NoAction
    /\ winner(G) # None => legal_actions(G) = << >>
    /\ \A a \in Range(legal_actions(G)) :
          IF pending_action # NoAction
          THEN a.type \notin PrimaryActionTypes /\ a.actor = awaiting_response_from
          ELSE /\ a.type \in PrimaryActionTypes
               /\ a.actor = current_player
               /\ a.target = (IF a.type \in {"STEAL", "ASSASSINATE", "COUP"}
                              THEN _default_target(G) ELSE None)

\* a response by somebody who is not awaited was rejected in a response window
C19_Witness ==
    /\ raised = "wrong_responder"
    /\ pending_action # NoAction
    /\ G = prev
    /\ steps > 0

(* ---------------- state.py: the constructor ---------------- *)

\* the seat counts the constructor's assert admits
MinSeats == 2
MaxSeats == 6

\* seeds explored: 0..MaxSeed
MaxSeed == 59

\* BaseRules.full_deck(): cnt copies of each role, in the order of deck_counts
full_deck ==
    LET order == << "Duke", "Assassin", "Captain", "Ambassador", "Contessa" >>
    IN  [i \in 1..15 |-> order[((i - 1) \div 3) + 1]]

\* random.Random(seed).shuffle(d): the permutation belongs to the generator, not
\* to this repository; a seed stands for one permutation of the list, position
\* i receiving the card at stride * i + seed (the strides are the units mod 15,
\* which make it a permutation).
rng_shuffle(seed, d) ==
    LET strides == << 1, 2, 4, 7, 8, 11, 13, 14 >>
        stride == strides[((seed \div Len(d)) % Len(strides)) + 1]
    IN  [i \in 1..Len(d) |-> d[((stride * (i - 1) + seed) % Len(d)) + 1]]

\* the dataclass defaults of the interaction fields and of current_player
FieldDefaults ==
    [ current_player |-> 0,
      pending_action |-> NoAction,
      pending_blocker |-> None,
      pending_block_role |-> NoRole,
      awaiting_response_from |-> None,
      pending_claim_role |-> NoRole ]

\* _setup dealing one round only
_setup_OneRound(n, seed) ==
    LET shuffled == rng_shuffle(seed, full_deck)
        rest == SubSeq(shuffled, 1, Len(shuffled) - n)
    IN  [ num_players |-> n,
          players |-> [p \in 0..(n - 1) |->
                          [coins |-> starting_coins,
                           hand |-> << shuffled[Len(shuffled) - p] >>,
                           revealed |-> << >>]],
          deck |-> [pool |-> [r \in Roles |-> Count(rest, r)], tail |-> << >>],
          current_player |-> 0,
          pending_action |-> FieldDefaults.pending_action,
          pending_blocker |-> FieldDefaults.pending_blocker,
          pending_block_role |-> FieldDefaults.pending_block_role,
          awaiting_response_from |-> FieldDefaults.awaiting_response_from,
          pending_claim_role |-> FieldDefaults.pending_claim_role ]

\* GameState._setup for n seats: the players with starting_coins, the shuffled
\* full deck, cards_per_player rounds of the deal (in round c seat p takes the
\* card deck.pop() gives, the last of the list), current_player = 0.  The
\* remaining deck is in the order the shuffle left.
_setup(n, seed) ==
    LET shuffled == rng_shuffle(seed, full_deck)
        dealt == cards_per_player * n
        rest == SubSeq(shuffled, 1, Len(shuffled) - dealt)
    IN  [ num_players |-> n,
          players |-> [p \in 0..(n - 1) |->
                          [coins |-> starting_coins,
                           hand |-> [c \in 1..cards_per_player |->
                                        shuffled[Len(shuffled) - ((c - 1) * n + p)]],
                           revealed |-> << >>]],
          deck |-> [pool |-> [r \in Roles |-> Count(rest, r)], tail |-> << >>],
          current_player |-> 0,
          pending_action |-> FieldDefaults.pending_action,
          pending_blocker |-> FieldDefaults.pending_blocker,
          pending_block_role |-> FieldDefaults.pending_block_role,
          awaiting_response_from |-> FieldDefaults.awaiting_response_from,
          pending_claim_role |-> FieldDefaults.pending_claim_role ]

\* no GameState has been constructed yet
NoGame ==
    [ num_players |-> 0,
      players |-> << >>,
      deck |-> [pool |-> [r \in Roles |-> 0], tail |-> << >>],
      current_player |-> None,
      pending_action |-> NoAction,
      pending_blocker |-> None,
      pending_block_role |-> NoRole,
      awaiting_response_from |-> None,
      pending_claim_role |-> NoRole ]

\* the game fields are those of h
GameIs(h) ==
    /\ num_players = h.num_players
    /\ players = h.players
    /\ deck = h.deck
    /\ current_player = h.current_player
    /\ pending_action = h.pending_action
    /\ pending_blocker = h.pending_blocker
    /\ pending_block_role = h.pending_block_role
    /\ awaiting_response_from = h.awaiting_response_from
    /\ pending_claim_role = h.pending_claim_role

InitSetup ==
    /\ GameIs(NoGame)
    /\ last = NoAction
    /\ prev = NoGame
    /\ steps = 0
    /\ raised = "None"
    /\ NoSolver

\* GameState(num_players = n, seed = seed): the assert on the seat count, then
\* _setup.  A rejected seat count raises before any field is assigned.
Construct ==
    /\ num_players = 0
    /\ raised = "None"
    /\ \E n \in (MinSeats - 1)..(MaxSeats + 1), seed \in 0..MaxSeed :
          IF MinSeats <= n /\ n <= MaxSeats
          THEN LET h == _setup(n, seed)
               IN  /\ num_players' = h.num_players
                   /\ players' = h.players
                   /\ deck' = h.deck
                   /\ current_player' = h.current_player
                   /\ pending_action' = h.pending_action
                   /\ pending_blocker' = h.pending_blocker
                   /\ pending_block_role' = h.pending_block_role
                   /\ awaiting_response_from' = h.awaiting_response_from
                   /\ pending_claim_role' = h.pending_claim_role
                   /\ prev' = h
                   /\ UNCHANGED << last, steps, raised, solver_vars >>
          ELSE /\ raised' = "seat_count"
               /\ UNCHANGED << game_vars, last, prev, steps, solver_vars >>

NextSetup == Construct

\* the construction of a game, for every admitted seat count
SpecSetup == InitSetup /\ [][NextSetup]_vars

(* ---------------- C21 ---------------- *)

\* a GameState has been constructed
Constructed == num_players # 0

\* C21: initial state.  For every seed and every seat count N in 2..6, a freshly
\* constructed game has every player with 2 coins, exactly 2 cards in hand and
\* an empty revealed pile, a deck of 15 - 2N cards, current_player = 0 and all
\* pending fields null.
C21_InitialState ==
    Constructed =>
        /\ num_players \in 2..6
        /\ DOMAIN players = 0..(num_players - 1)
        /\ \A p \in DOMAIN players :
              /\ players[p].coins = 2
              /\ Len(players[p].hand) = 2
              /\ players[p].revealed = << >>
        /\ DeckLen(deck) = 15 - 2 * num_players
        /\ num_players = 2 => DeckLen(deck) = 11
        /\ current_player = 0
        /\ PendingAllNull(G)

\* a six-seat game has been constructed: twelve cards dealt, three left
C21_Witness ==
    /\ Constructed
    /\ num_players = 6
    /\ DeckLen(deck) = 3
    /\ \E p \in DOMAIN players : players[p].hand[1] # players[p].hand[2]

(* ---------------- solver/mccfr.py: numbers ---------------- *)
(* The solver's floats are kept as exact fractions << n, d >> in lowest     *)
(* terms with d > 0; rounding of the float operations is not modelled.      *)

Abs(x) == IF x < 0 THEN -x ELSE x

RECURSIVE GCD(_, _)
GCD(a, b) == IF b = 0 THEN a ELSE GCD(b, a % b)

\* the fraction n / d (d # 0) in lowest terms
Frac(n, d) ==
    LET g == GCD(Abs(n), Abs(d))
    IN  IF d < 0 THEN << (-n) \div g, (-d) \div g >> ELSE << n \div g, d \div g >>

Zero == Frac(0, 1)
One == Frac(1, 1)

FAdd(a, b) == Frac(a[1] * b[2] + b[1] * a[2], a[2] * b[2])
FSub(a, b) == Frac(a[1] * b[2] - b[1] * a[2], a[2] * b[2])
FMul(a, b) == Frac(a[1] * b[1], a[2] * b[2])
FDiv(a, b) == Frac(a[1] * b[2], a[2] * b[1])
FLe(a, b) == a[1] * b[2] <= b[1] * a[2]

\* max(0.0, a)
FMax0(a) == IF FLe(a, Zero) THEN Zero ELSE a

\* sum(list)
RECURSIVE FSum(_)
FSum(s) == IF s = << >> THEN Zero ELSE FAdd(FSum(SubSeq(s, 1, Len(s) - 1)), s[Len(s)])

\* s <= 1e-12: a fraction whose denominator is below 10^12 is at most 1e-12
\* exactly when it is at most 0
LeEps(s) == FLe(s, Zero)

\* [1.0 / len(legal)] * len(legal)
Uniform(legal) == [i \in 1..Len(legal) |-> Frac(1, Len(legal))]

(* ---------------- solver/mccfr.py: keys ---------------- *)

\* Role.name
RoleName(r) ==
    CASE r = "Duke" -> "DUKE"
      [] r = "Assassin" -> "ASSASSIN"
      [] r = "Captain" -> "CAPTAIN"
      [] r = "Ambassador" -> "AMBASSADOR"
      [] r = "Contessa" -> "CONTESSA"
      [] r = NoRole -> "None"

\* sorted([r.name for r in cards]): the names sort like the values
sorted_names(cards) ==
    LET s == SortedByValue(cards)
    IN  [i \in 1..Len(s) |-> RoleName(s[i])]

\* action_key(a): the text "TYPE:target", "-" (here None) for no target
action_key(a) == << a.type, a.target >>

\* infoset_key that also writes the other player's hand
infoset_key_WithOtherHand(g, player) ==
    [ cur |-> g.current_player,
      c |-> << g.players[0].coins, g.players[1].coins >>,
      r0 |-> sorted_names(g.players[0].revealed),
      r1 |-> sorted_names(g.players[1].revealed),
      pa |-> IF g.pending_action = NoAction
             THEN << "None" >>
             ELSE << g.pending_action.type, g.pending_action.actor, g.pending_action.target >>,
      pr |-> RoleName(g.pending_block_role),
      pb |-> g.pending_blocker,
      ar |-> g.awaiting_response_from,
      cr |-> RoleName(g.pending_claim_role),
      h |-> sorted_names(g.players[player].hand) \o sorted_names(g.players[1 - player].hand) ]

\* infoset_key(gs, player): the text is the fields below joined by "|" and
\* "||"; kept as the record of these fields, which the text determines and is
\* determined by.  A None target is written -1, which None is.
infoset_key(g, player) ==
    [ cur |-> g.current_player,
      c |-> << g.players[0].coins, g.players[1].coins >>,
      r0 |-> sorted_names(g.players[0].revealed),
      r1 |-> sorted_names(g.players[1].revealed),
      pa |-> IF g.pending_action = NoAction
             THEN << "None" >>
             ELSE << g.pending_action.type, g.pending_action.actor, g.pending_action.target >>,
      pr |-> RoleName(g.pending_block_role),
      pb |-> g.pending_blocker,
      ar |-> g.awaiting_response_from,
      cr |-> RoleName(g.pending_claim_role),
      h |-> sorted_names(g.players[player].hand) ]

(* ---------------- solver/mccfr.py: NodeStats ---------------- *)

\* dict.get(k, default)
Get(d, k, default) == IF k \in DOMAIN d THEN d[k] ELSE default

\* d with d[k] = v
Put(d, k, v) == [x \in (DOMAIN d) \cup {k} |-> IF x = k THEN v ELSE d[x]]

\* NodeStats(): both dicts empty
NodeStats == [regret_sum |-> EmptyDict, strategy_sum |-> EmptyDict]

\* the strategy_sum dict after the loop of get_strategy over the first n actions
RECURSIVE Accumulated(_, _, _, _, _)
Accumulated(sums, legal, strategy, w, n) ==
    IF n = 0 THEN sums
    ELSE LET before == Accumulated(sums, legal, strategy, w, n - 1)
             k == action_key(legal[n])
         IN  Put(before, k, FAdd(Get(before, k, Zero), FMul(w, strategy[n])))

\* get_strategy that normalises the regrets as they are, negative ones too
get_strategy_Unclipped(node, legal, realization_weight) ==
    LET regrets == [i \in 1..Len(legal) |->
                       Get(node.regret_sum, action_key(legal[i]), Zero)]
        normalizer == FSum(regrets)
        strategy == IF FLe(normalizer, Zero)
                    THEN Uniform(legal)
                    ELSE [i \in 1..Len(legal) |-> FDiv(regrets[i], normalizer)]
    IN  [ strategy |-> strategy,
          node |-> IF ~FLe(realization_weight, Zero) /\ legal # << >>
                   THEN [ regret_sum |-> node.regret_sum,
                          strategy_sum |-> Accumulated(node.strategy_sum, legal, strategy,
                                                       realization_weight, Len(legal)) ]
                   ELSE node ]

\* node.get_strategy(legal, realization_weight): the strategy returned and the
\* node after the call
get_strategy(node, legal, realization_weight) ==
    LET regrets == [i \in 1..Len(legal) |->
                       FMax0(Get(node.regret_sum, action_key(legal[i]), Zero))]
        normalizer == FSum(regrets)
        strategy == IF FLe(normalizer, Zero)
                    THEN Uniform(legal)
                    ELSE [i \in 1..Len(legal) |-> FDiv(regrets[i], normalizer)]
    IN  [ strategy |-> strategy,
          node |-> IF ~FLe(realization_weight, Zero) /\ legal # << >>
                   THEN [ regret_sum |-> node.regret_sum,
                          strategy_sum |-> Accumulated(node.strategy_sum, legal, strategy,
                                                       realization_weight, Len(legal)) ]
                   ELSE node ]

\* get_average_strategy that returns the sums as they are
get_average_strategy_Unnormalized(node, legal) ==
    IF legal = << >> THEN << >>
    ELSE LET vals == [i \in 1..Len(legal) |->
                         Get(node.strategy_sum, action_key(legal[i]), Zero)]
         IN  IF LeEps(FSum(vals)) THEN Uniform(legal) ELSE vals

\* node.get_average_strategy(legal)
get_average_strategy(node, legal) ==
    IF legal = << >> THEN << >>
    ELSE LET vals == [i \in 1..Len(legal) |->
                         Get(node.strategy_sum, action_key(legal[i]), Zero)]
             s == FSum(vals)
         IN  IF LeEps(s) THEN Uniform(legal)
             ELSE [i \in 1..Len(legal) |-> FDiv(vals[i], s)]

\* self.nodes.setdefault(key, NodeStats()): the table after the call
setdefault(tbl, key) == IF key \in DOMAIN tbl THEN tbl ELSE Put(tbl, key, NodeStats)

\* action_probabilities(gs) on the node table tbl: the list returned and the
\* table after the call
action_probabilities(g, tbl) ==
    LET legal == legal_actions(g)
        current == g.current_player
        key == infoset_key(g, current)
        tbl2 == setdefault(tbl, key)
        node == tbl2[key]
        avg == get_average_strategy(node, legal)
        strategy == IF avg # << >> /\ ~FLe(FSum(avg), Zero)
                    THEN avg
                    ELSE get_strategy(node, legal, Zero).strategy
    IN  [ result |-> [i \in 1..Len(legal) |-> << legal[i], strategy[i] >>],
          nodes |-> tbl2 ]

(* ---------------- solver/mccfr.py: checkpoints ---------------- *)

\* json.dump of a float: a number token with a fraction part
json_float(x) == << "float", x >>

\* a number token without fraction part, as other writers may leave
json_int(n) == << "int", Frac(n, 1) >>

\* float(vv) of a parsed number token
float(tok) == tok[2]

\* the JSON object of a dict of floats
json_floats(d) == [k \in DOMAIN d |-> json_float(d[k])]

\* the document save_checkpoint writes for a solver with table tbl
save_checkpoint(tbl, md, tm) ==
    [ written |-> TRUE,
      nodes |-> [k \in DOMAIN tbl |->
                    [ regret_sum |-> json_floats(tbl[k].regret_sum),
                      strategy_sum |-> json_floats(tbl[k].strategy_sum) ]],
      config |-> [max_depth |-> md, traversal_mode |-> tm] ]

\* v.get(member, {}) of a node object of the document, converted by float()
loaded_floats(v, member) ==
    IF member \in DOMAIN v
    THEN [kk \in DOMAIN v[member] |-> float(v[member][kk])]
    ELSE EmptyDict

\* load_checkpoint that keeps the nodes the solver had
load_checkpoint_KeepsNodes(file, tbl) ==
    [k \in (DOMAIN tbl) \cup (DOMAIN file.nodes) |->
        IF k \in DOMAIN file.nodes
        THEN [ regret_sum |-> loaded_floats(file.nodes[k], "regret_sum"),
               strategy_sum |-> loaded_floats(file.nodes[k], "strategy_sum") ]
        ELSE tbl[k]]

\* the node table load_checkpoint builds from the document, for a solver whose
\* table was tbl: self.nodes = {} and one NodeStats per node of the document
load_checkpoint(file, tbl) ==
    [k \in DOMAIN file.nodes |->
        [ regret_sum |-> loaded_floats(file.nodes[k], "regret_sum"),
          strategy_sum |-> loaded_floats(file.nodes[k], "strategy_sum") ]]

(* ---------------- the solver on a given game ---------------- *)

\* start games explored: 0..MaxStart
MaxStart == 6

\* apply() calls made on a start game before it is handed to the solver
MaxPlayed == 2

\* a 2-player game of the rows of Init
StartGame(k) ==
    LET hands == [p \in 0..1 |-> Row(HandRows, k, p)]
    IN  [ num_players |-> 2,
          players |-> [p \in 0..1 |->
                          [coins |-> Row(CoinRows, k, p),
                           hand |-> IF Row(LostRows, k, p) THEN Tail(hands[p]) ELSE hands[p],
                           revealed |-> IF Row(LostRows, k, p)
                                        THEN << Head(hands[p]) >> ELSE << >>]],
          deck |-> DeckAfterDeal(2, hands),
          current_player |-> 0,
          pending_action |-> NoAction,
          pending_blocker |-> None,
          pending_block_role |-> NoRole,
          awaiting_response_from |-> None,
          pending_claim_role |-> NoRole ]

\* the games one apply() call of a legal action makes of g
Successors(g) ==
    LET legal == legal_actions(g)
    IN  UNION {apply(g, legal[i]) : i \in 1..Len(legal)}

\* the games reached from the start games by at most k calls
RECURSIVE GamesAfter(_)
GamesAfter(k) ==
    IF k = 0 THEN {StartGame(i) : i \in 0..MaxStart}
    ELSE LET s == GamesAfter(k - 1)
         IN  s \cup UNION {Successors(g) : g \in s}

\* the sums another run left in a node for the legal actions of g
NodeRows(g) ==
    LET legal == legal_actions(g)
        keys == {action_key(legal[i]) : i \in 1..Len(legal)}
        idx(k) == CHOOSE i \in 1..Len(legal) : action_key(legal[i]) = k
        first == {k \in keys : idx(k) = 1}
    IN  { [ strategy_sum |-> [k \in keys |-> json_int(idx(k))],
            regret_sum |-> [k \in keys |-> json_int(0)] ],
          [ strategy_sum |-> [k \in keys |-> json_float(Zero)],
            regret_sum |-> [k \in keys |-> IF idx(k) % 2 = 1 THEN json_float(Frac(idx(k), 2))
                                                            ELSE json_float(Frac(-1, 1))] ],
          [ strategy_sum |-> [k \in keys |-> json_float(Zero)],
            regret_sum |-> [k \in keys |-> json_float(Frac(1 - idx(k), 2))] ],
          [ regret_sum |-> [k \in first |-> json_int(2)] ],
          [ strategy_sum |-> [k \in first |-> json_float(Frac(1, 2))],
            regret_sum |-> EmptyDict ] }

\* checkpoint files of another run: one node, for the infoset of a player of g
OtherFiles(g) ==
    { [ written |-> TRUE,
        nodes |-> [k \in {infoset_key(g, p)} |-> row],
        config |-> [max_depth |-> 60, traversal_mode |-> "full"] ] :
      p \in 0..1, row \in NodeRows(g) }

\* MCCFRSolver(max_depth = md, traversal_mode = tm)
Constructs(md, tm) ==
    /\ nodes' = EmptyDict
    /\ max_depth' = md
    /\ traversal_mode' = tm
    /\ probs' = << >>
    /\ op' = "__init__"

\* a game of the set games handed to a solver just constructed with the default
\* arguments, and the file at the checkpoint path
InitSolver(games) ==
    /\ \E g \in games : GameIs(g) /\ prev = g
    /\ last = NoAction
    /\ steps = 0
    /\ raised = "None"
    /\ nodes = EmptyDict
    /\ max_depth = 300
    /\ traversal_mode = "sampled"
    /\ ckpt \in {NoFile} \cup OtherFiles(G)
    /\ probs = << >>
    /\ at_save = NoFile
    /\ op = "__init__"
    /\ NoRun

InitPolicy == InitSolver(GamesAfter(MaxPlayed))

\* solver.action_probabilities(gs) on the game
ActionProbabilities ==
    /\ op # "None"
    /\ LET r == action_probabilities(G, nodes)
       IN  /\ probs' = r.result
           /\ nodes' = r.nodes
    /\ op' = "action_probabilities"
    /\ UNCHANGED << game_vars, last, prev, steps, raised, max_depth, traversal_mode,
                    ckpt, at_save, run_vars >>

\* solver.save_checkpoint(path)
SaveCheckpoint ==
    /\ op # "None"
    /\ ckpt' = save_checkpoint(nodes, max_depth, traversal_mode)
    /\ at_save' = [ written |-> TRUE, nodes |-> nodes,
                    config |-> [max_depth |-> max_depth, traversal_mode |-> traversal_mode] ]
    /\ probs' = << >>
    /\ op' = "save_checkpoint"
    /\ UNCHANGED << game_vars, last, prev, steps, raised, nodes, max_depth, traversal_mode,
                    run_vars >>

\* solver.load_checkpoint(path); open() raises when there is no file
LoadCheckpoint ==
    /\ op # "None"
    /\ ckpt.written
    /\ nodes' = load_checkpoint(ckpt, nodes)
    /\ probs' = << >>
    /\ op' = "load_checkpoint"
    /\ UNCHANGED << game_vars, last, prev, steps, raised, max_depth, traversal_mode,
                    ckpt, at_save, run_vars >>

\* another solver is constructed, as the CLI does before it loads a checkpoint
NewSolver ==
    /\ op # "None"
    /\ \E md \in {60, 300}, tm \in {"sampled", "full"} : Constructs(md, tm)
    /\ UNCHANGED << game_vars, last, prev, steps, raised, ckpt, at_save, run_vars >>

NextPolicy == ActionProbabilities \/ LoadCheckpoint

\* queries of the policy of a solver that may load a checkpoint of another run
SpecPolicy == InitPolicy /\ [][NextPolicy]_vars

(* ---------------- C22 ---------------- *)

\* s back to front
Reverse(s) == [i \in 1..Len(s) |-> s[Len(s) + 1 - i]]

\* hands of at most two cards
AnyHands == {<< >>} \cup {<< a >> : a \in Roles} \cup {<< a, b >> : a, b \in Roles}

\* the 2-player states that agree with g on current_player, the coins, the
\* revealed piles as multisets, the five pending fields and the hand of player
\* p as a multiset: any hand of the other player, and either g's deck and list
\* orders, or another deck and the lists of g back to front
HiddenVariants(g, p) ==
    { [ num_players |-> 2,
        players |-> [q \in 0..1 |->
                        [ coins |-> g.players[q].coins,
                          hand |-> IF q # p THEN other
                                   ELSE IF flip THEN Reverse(g.players[q].hand)
                                   ELSE g.players[q].hand,
                          revealed |-> IF flip THEN Reverse(g.players[q].revealed)
                                       ELSE g.players[q].revealed ]],
        deck |-> IF flip THEN [pool |-> [r \in Roles |-> 0], tail |-> g.players[1 - p].hand]
                 ELSE g.deck,
        current_player |-> g.current_player,
        pending_action |-> g.pending_action,
        pending_blocker |-> g.pending_blocker,
        pending_block_role |-> g.pending_block_role,
        awaiting_response_from |-> g.awaiting_response_from,
        pending_claim_role |-> g.pending_claim_role ] :
      other \in AnyHands, flip \in BOOLEAN }

\* C22: the infoset key hides private information.  For a perspective player,
\* two 2-player states that agree on current_player, both players' coins, both
\* revealed piles as multisets, the five pending fields and the perspective
\* player's hand as a multiset get the same infoset key, whatever the deck and
\* the other player's hand are.
C22_KeyHidesPrivate ==
    \A p \in 0..1 :
        LET key == infoset_key(G, p)
        IN  \A g2 \in HiddenVariants(G, p) : infoset_key(g2, p) = key

\* action_probabilities has stored a node under the key of an open interaction,
\* and a state with another deck and another hand of the other player has that key
C22_Witness ==
    /\ op = "action_probabilities"
    /\ pending_action # NoAction
    /\ \E g2 \in HiddenVariants(G, current_player) :
          /\ g2.players[1 - current_player].hand # players[1 - current_player].hand
          /\ g2.players[current_player].hand # players[current_player].hand
          /\ g2.deck # deck
          /\ infoset_key(g2, current_player) \in DOMAIN nodes

(* ---------------- C23 ---------------- *)

\* the latest solver call was action_probabilities on a game without winner
Queried == op = "action_probabilities" /\ winner(G) = None

\* the node action_probabilities looked up in its latest call
QueriedNode == nodes[infoset_key(G, current_player)]

\* C23: strategy distribution.  For every non-terminal game state and every
\* content of the node table, action_probabilities returns exactly one entry per
\* legal action, in legal-action order, with all probabilities non-negative and
\* summing to 1.
C23_StrategyDistribution ==
    Queried =>
        LET legal == legal_actions(G)
        IN  /\ Len(probs) = Len(legal)
            /\ \A i \in 1..Len(legal) : probs[i][1] = legal[i] /\ FLe(Zero, probs[i][2])
            /\ FSum([i \in 1..Len(probs) |-> probs[i][2]]) = One

\* the policy returned for a response window, from a loaded node, is not uniform
C23_Witness ==
    /\ Queried
    /\ pending_action # NoAction
    /\ QueriedNode.strategy_sum # EmptyDict
    /\ \E i, j \in 1..Len(probs) : probs[i][2] # probs[j][2] /\ probs[j][2] # Zero

(* ---------------- C29 ---------------- *)

\* the regret-matching strategy of a node over the legal actions: the positive
\* regrets over their sum, uniform when no regret is positive
RegretMatching(node, legal) ==
    LET positive == [i \in 1..Len(legal) |->
                        FMax0(Get(node.regret_sum, action_key(legal[i]), Zero))]
        total == FSum(positive)
    IN  [i \in 1..Len(legal) |->
            IF total = Zero THEN Frac(1, Len(legal)) ELSE FDiv(positive[i], total)]

\* C29: fallback order of action_probabilities.  It returns the normalized
\* strategy_sum of the node when that is not all zero; when the node is missing
\* or its strategy_sum is all zero over the legal actions it returns the
\* regret-matching strategy computed from the node's regret_sum; only when that
\* too is unavailable does it return the uniform distribution.
C29_FallbackOrder ==
    Queried =>
        LET legal == legal_actions(G)
            sums == [i \in 1..Len(legal) |->
                        Get(QueriedNode.strategy_sum, action_key(legal[i]), Zero)]
            total == FSum(sums)
        IN  \A i \in 1..Len(legal) :
                probs[i][2] = IF total # Zero THEN FDiv(sums[i], total)
                              ELSE RegretMatching(QueriedNode, legal)[i]

NextCheckpoint == ActionProbabilities \/ SaveCheckpoint \/ LoadCheckpoint \/ NewSolver

InitCheckpoint == InitSolver(GamesAfter(1))

\* solvers that query, save, are constructed anew and load
SpecCheckpoint == InitCheckpoint /\ [][NextCheckpoint]_vars

(* ---------------- C24 ---------------- *)

\* the latest solver call loaded the file the latest save_checkpoint wrote
LoadedOwnFile == op = "load_checkpoint" /\ at_save.written

\* C24: checkpoint round-trip of the node table.  After save_checkpoint(p)
\* followed by load_checkpoint(p), into the same or a fresh solver, the node
\* table has the same infoset keys with the same regret_sum and strategy_sum
\* entries, so action_probabilities returns identical results for every
\* previously seen infoset; nodes the loading solver had before the load that
\* are absent from the file are discarded.
C24_NodeTableRoundTrip ==
    LoadedOwnFile =>
        /\ DOMAIN nodes = DOMAIN at_save.nodes
        /\ \A k \in DOMAIN nodes :
              /\ nodes[k].regret_sum = at_save.nodes[k].regret_sum
              /\ nodes[k].strategy_sum = at_save.nodes[k].strategy_sum
        /\ infoset_key(G, current_player) \in DOMAIN at_save.nodes =>
              action_probabilities(G, nodes).result
                  = action_probabilities(G, at_save.nodes).result

\* a solver constructed with other arguments has loaded a saved table that
\* holds sums for the game's infoset
C24_Witness ==
    /\ LoadedOwnFile
    /\ max_depth # at_save.config.max_depth
    /\ \E k \in DOMAIN nodes :
          /\ k = infoset_key(G, current_player)
          /\ nodes[k].strategy_sum # EmptyDict
          /\ nodes[k].regret_sum # EmptyDict

(* ---------------- C30 ---------------- *)

\* C30: checkpoint round-trip of the config block.  save_checkpoint writes
\* max_depth and traversal_mode, and load_checkpoint of that file into a solver
\* constructed with different values restores the saved max_depth and
\* traversal_mode.
C30_ConfigRoundTrip ==
    /\ op = "save_checkpoint" =>
          ckpt.config = [max_depth |-> max_depth, traversal_mode |-> traversal_mode]
    /\ LoadedOwnFile =>
          /\ max_depth = at_save.config.max_depth
          /\ traversal_mode = at_save.config.traversal_mode

(* ---------------- solver/mccfr.py: evaluate ---------------- *)

\* max_depth values explored: 0..MaxDepth
MaxDepth == 4

\* episodes arguments explored: 0..MaxEpisodes
MaxEpisodes == 2

\* seeds rng.randrange(1 << 30) gives an episode's game: 0..MaxEvalSeed
MaxEvalSeed == 6

\* _sample_from_dist(dist): the indices it can return.  r = rng.random() is in
\* [0, 1) and the first index whose cumulative sum is >= r is returned: an index
\* of positive probability, or the first index when r = 0.  (On exact sums the
\* cumulative sum reaches every r, so the fallback to the last index is not
\* taken.)
_sample_from_dist(dist) == {i \in 1..Len(dist) : i = 1 \/ ~FLe(dist[i], Zero)}

\* evaluate(episodes) has just been called on a solver constructed with
\* max_depth; the work of the call, episodes * max_depth, is within the bound
InitEvaluate ==
    /\ GameIs(NoGame)
    /\ last = NoAction
    /\ prev = NoGame
    /\ steps = 0
    /\ raised = "None"
    /\ nodes = EmptyDict
    /\ max_depth \in 0..MaxDepth
    /\ traversal_mode = "sampled"
    /\ ckpt = NoFile
    /\ probs = << >>
    /\ at_save = NoFile
    /\ op = "evaluate"
    /\ \E e \in 0..MaxEpisodes :
          /\ e * max_depth <= MaxDepth
          /\ evaluation = [episodes |-> e, playing |-> FALSE, total |-> Zero, ws |-> << >>,
                           adds |-> << >>, result |-> NoValue]
    /\ traversals = << >>
    /\ frames = << >>
    /\ objs = EmptyDict
    /\ ret = NoValue

\* the episode's loop has ended: w = gs.winner() and the update of total
EpisodeOver ==
    LET w == winner(G)
        added == IF w = 0 THEN One ELSE Frac(-1, 1)
    IN  evaluation' = [ episodes |-> evaluation.episodes,
                        playing |-> FALSE,
                        total |-> FAdd(evaluation.total, added),
                        ws |-> Append(evaluation.ws, w),
                        adds |-> Append(evaluation.adds, added),
                        result |-> evaluation.result ]

\* for _ in range(episodes): gs = GameState(num_players=2, seed=...); steps = 0
EpisodeStart ==
    /\ op = "evaluate"
    /\ ~evaluation.playing
    /\ Len(evaluation.ws) < evaluation.episodes
    /\ \E seed \in 0..MaxEvalSeed :
          LET h == _setup(2, seed)
          IN  /\ num_players' = h.num_players
              /\ players' = h.players
              /\ deck' = h.deck
              /\ current_player' = h.current_player
              /\ pending_action' = h.pending_action
              /\ pending_blocker' = h.pending_blocker
              /\ pending_block_role' = h.pending_block_role
              /\ awaiting_response_from' = h.awaiting_response_from
              /\ pending_claim_role' = h.pending_claim_role
              /\ prev' = h
    /\ last' = NoAction
    /\ steps' = 0
    /\ evaluation' = [evaluation EXCEPT !.playing = TRUE]
    /\ UNCHANGED << raised, nodes, max_depth, traversal_mode, ckpt, probs, at_save, op,
                    traversals, frames, objs, ret >>

\* one pass of the while loop: acts = self.action_probabilities(gs); break if
\* there is none; else sample an index, gs.apply(actions[idx]), steps += 1
RolloutStep ==
    /\ op = "evaluate"
    /\ evaluation.playing
    /\ winner(G) = None /\ steps < max_depth
    /\ LET r == action_probabilities(G, nodes)
       IN  /\ nodes' = r.nodes
           /\ probs' = r.result
           /\ IF r.result = << >>
              THEN /\ EpisodeOver
                   /\ UNCHANGED << game_vars, last, prev, steps >>
              ELSE /\ \E idx \in _sample_from_dist([i \in 1..Len(r.result) |-> r.result[i][2]]) :
                        \E h \in apply(G, r.result[idx][1]) :
                           /\ num_players' = h.num_players
                           /\ players' = h.players
                           /\ deck' = h.deck
                           /\ current_player' = h.current_player
                           /\ pending_action' = h.pending_action
                           /\ pending_blocker' = h.pending_blocker
                           /\ pending_block_role' = h.pending_block_role
                           /\ awaiting_response_from' = h.awaiting_response_from
                           /\ pending_claim_role' = h.pending_claim_role
                           /\ last' = r.result[idx][1]
                   /\ prev' = G
                   /\ steps' = steps + 1
                   /\ UNCHANGED evaluation
    /\ UNCHANGED << raised, max_depth, traversal_mode, ckpt, at_save, op,
                    traversals, frames, objs, ret >>

\* the while condition is false: w = gs.winner(); total += 1.0 if w == 0 else -1.0
EpisodeEnd ==
    /\ op = "evaluate"
    /\ evaluation.playing
    /\ ~(winner(G) = None /\ steps < max_depth)
    /\ EpisodeOver
    /\ UNCHANGED << game_vars, last, prev, steps, raised, nodes, max_depth, traversal_mode,
                    ckpt, probs, at_save, op, traversals, frames, objs, ret >>

\* return total / max(1, episodes)
EvaluateReturn ==
    /\ op = "evaluate"
    /\ ~evaluation.playing
    /\ Len(evaluation.ws) = evaluation.episodes
    /\ evaluation.result = NoValue
    /\ evaluation' = [evaluation EXCEPT
                         !.result = FDiv(evaluation.total,
                                         Frac(IF evaluation.episodes < 1 THEN 1
                                              ELSE evaluation.episodes, 1))]
    /\ UNCHANGED << game_vars, last, prev, steps, raised, nodes, max_depth, traversal_mode,
                    ckpt, probs, at_save, op, traversals, frames, objs, ret >>

NextEvaluate == EpisodeStart \/ RolloutStep \/ EpisodeEnd \/ EvaluateReturn

\* one call of evaluate()
SpecEvaluate == InitEvaluate /\ [][NextEvaluate]_vars

(* ---------------- C25 ---------------- *)

\* what the claim has an episode contribute whose rollout ended with winner w
Contribution(w) == IF w = 0 THEN One ELSE IF w = 1 THEN Frac(-1, 1) ELSE Zero

\* C25: evaluation utility.  In evaluate, each episode contributes +1 when
\* player 0 is the winner, -1 when player 1 is the winner, and 0 when the
\* rollout is cut off after max_depth applied actions with no winner; the
\* returned value is the mean of these contributions and lies in [-1, 1].
C25_EvaluationUtility ==
    /\ \A e \in 1..Len(evaluation.adds) : evaluation.adds[e] = Contribution(evaluation.ws[e])
    /\ evaluation.result # NoValue =>
          /\ evaluation.result
                = FDiv(FSum([e \in 1..Len(evaluation.ws) |-> Contribution(evaluation.ws[e])]),
                       Frac(IF evaluation.episodes < 1 THEN 1 ELSE evaluation.episodes, 1))
          /\ FLe(Frac(-1, 1), evaluation.result) /\ FLe(evaluation.result, One)

(* ---------------- C27 ---------------- *)

\* the player the claim names decision-maker of g
DecisionMaker(g) ==
    IF g.pending_action = NoAction THEN g.current_player ELSE g.awaiting_response_from

\* C27: solver decision-maker.  At every decision point visited by the
\* traversal, action_probabilities or evaluate, the player treated as
\* decision-maker, whose hand goes into the infoset key and who is compared
\* with updating_player, is the actor of the legal actions at that state:
\* current_player when no interaction is pending, awaiting_response_from when
\* one is pending.
C27_DecisionMaker ==
    /\ Queried =>
          /\ \A i \in 1..Len(probs) : probs[i][1].actor = DecisionMaker(G)
          /\ infoset_key(G, DecisionMaker(G)) \in DOMAIN nodes
    /\ \A d \in 1..Len(frames) :
          frames[d].pc # "enter" /\ frames[d].legal # << >> =>
              /\ frames[d].current = frames[d].legal[1].actor
              /\ frames[d].current = DecisionMaker(objs[frames[d].gs])
              /\ frames[d].key = infoset_key(objs[frames[d].gs], DecisionMaker(objs[frames[d].gs]))

(* ---------------- solver/mccfr.py: iterate and _mccfr_traverse ---------------- *)

\* max_depth values explored by the traversal: 0..MaxTraverseDepth
MaxTraverseDepth == 2

\* 1e-12, the floor of p_s: a value below every positive probability of the model
Tiny == Frac(1, 1000000)

\* GameState.clone(): a deep copy of players, deck and pending fields.  Games
\* are values here, so the copy is the game itself and shares nothing with it.
clone(g) == g

\* the call _mccfr_traverse(gs, updating_player, reach_prob_other = ro,
\* reach_prob_updating = ru, depth) at its entry; gs is the identity of the
\* GameState object in objs.  entry and explored are history: the game as it
\* was when the call was made, and the indices of legal it has recursed into.
Frame(gs, updating_player, ro, ru, depth, game) ==
    [ gs |-> gs,
      updating_player |-> updating_player,
      reach_prob_other |-> ro,
      reach_prob_updating |-> ru,
      depth |-> depth,
      pc |-> "enter",
      current |-> None,
      legal |-> << >>,
      key |-> << >>,
      strategy |-> << >>,
      i |-> 0,
      action_utils |-> << >>,
      entry |-> game,
      explored |-> {} ]

\* the innermost call
Top == frames[Len(frames)]

\* the GameState objects the calls of fs hold
Held(heap, fs) == [id \in {fs[d].gs : d \in 1..Len(fs)} |-> heap[id]]

\* _clone_and_apply with gs2 = gs in place of gs2 = gs.clone()
_clone_and_apply_InPlace(heap, gs, a) ==
    { [objs |-> Put(heap, gs, h), gs |-> gs] : h \in apply(heap[gs], a) }

\* _clone_and_apply(gs, a): gs2 = gs.clone(); gs2.apply(a); return gs2.  The
\* result is a new object (its identity is the next free one) for each outcome
\* of apply.
_clone_and_apply(heap, gs, a) ==
    LET gs2 == Len(frames) + 1
    IN  { [objs |-> Put(heap, gs2, h), gs |-> gs2] : h \in apply(clone(heap[gs]), a) }

\* the recursive call of the innermost call f for legal[i], with the reaches ro, ru
Call(f, i, ro, ru) ==
    \E c \in _clone_and_apply(objs, f.gs, f.legal[i]) :
        /\ objs' = c.objs
        /\ frames' = [frames EXCEPT ![Len(frames)] =
                         [f EXCEPT !.pc = "wait", !.i = i, !.explored = @ \cup {i}]]
                     \o << Frame(c.gs, f.updating_player, ro, ru, f.depth + 1, c.objs[c.gs]) >>
        /\ ret' = NoValue

\* the innermost call f returns v; the objects no call holds any more are gone
Return(f, v) ==
    /\ frames' = SubSeq(frames, 1, Len(frames) - 1)
    /\ objs' = Held(objs, frames')
    /\ ret' = << v, f >>

\* for k, u in zip(keys, action_utils): node.regret_sum[k] += reach_prob_other * (u - node_utility),
\* from the n-th pair on
RECURSIVE RegretUpdates(_, _, _, _, _, _)
RegretUpdates(sums, legal, action_utils, node_utility, ro, n) ==
    IF n > Len(legal) \/ n > Len(action_utils) THEN sums
    ELSE LET k == action_key(legal[n])
             regret == FSub(action_utils[n], node_utility)
         IN  RegretUpdates(Put(sums, k, FAdd(Get(sums, k, Zero), FMul(ro, regret))),
                           legal, action_utils, node_utility, ro, n + 1)

\* what iterate and the traversal leave alone: the game the seed gives, the
\* configuration of the solver and the files
outside_traversal ==
    << game_vars, last, prev, steps, raised, max_depth, traversal_mode, ckpt, probs,
       at_save, op, evaluation >>

\* iterate(iterations = 1, game_seed = s) has just been called on a solver
\* constructed with max_depth and traversal_mode; the game is the one
\* GameState(num_players = 2, seed = s) gives, or a game later in play, as the
\* recursion hands it on
InitTraverse ==
    /\ \E g \in {_setup(2, seed) : seed \in 0..1} \cup {StartGame(k) : k \in 0..MaxStart} :
          GameIs(g) /\ prev = g
    /\ last = NoAction
    /\ steps = 0
    /\ raised = "None"
    /\ nodes = EmptyDict
    /\ max_depth \in 0..MaxTraverseDepth
    /\ traversal_mode \in {"sampled", "full"}
    /\ ckpt = NoFile
    /\ probs = << >>
    /\ at_save = NoFile
    /\ op = "iterate"
    /\ evaluation = NoEvaluation
    /\ traversals = << 0, 1 >>
    /\ frames = << >>
    /\ objs = EmptyDict
    /\ ret = NoValue

\* for updating_player in (0, 1): gs = GameState(...); self._mccfr_traverse(gs,
\* updating_player, reach_prob_other = 1.0, reach_prob_updating = 1.0, depth = 0)
StartTraversal ==
    /\ op = "iterate"
    /\ frames = << >> /\ ret = NoValue
    /\ traversals # << >>
    /\ frames' = << Frame(1, Head(traversals), One, One, 0, G) >>
    /\ objs' = [id \in {1} |-> G]
    /\ traversals' = Tail(traversals)
    /\ UNCHANGED << nodes, ret, outside_traversal >>

\* the outermost call has returned; iterate drops the value
FinishTraversal ==
    /\ op = "iterate"
    /\ frames = << >> /\ ret # NoValue
    /\ ret' = NoValue
    /\ UNCHANGED << nodes, traversals, frames, objs, outside_traversal >>

\* a traversal call that looks up its node before it tests the depth cap
TraverseCut_CreatesNode ==
    /\ frames # << >> /\ Top.pc = "enter"
    /\ Top.depth >= max_depth
    /\ nodes' = setdefault(nodes, infoset_key(objs[Top.gs], objs[Top.gs].current_player))
    /\ Return(Top, Zero)
    /\ UNCHANGED << traversals, outside_traversal >>

\* if depth >= self.max_depth: return 0.0
TraverseCut ==
    /\ frames # << >> /\ Top.pc = "enter"
    /\ Top.depth >= max_depth
    /\ Return(Top, Zero)
    /\ UNCHANGED << nodes, traversals, outside_traversal >>

\* w = gs.winner(); if w is not None: return 1.0 if w == updating_player else -1.0
TraverseTerminal ==
    /\ frames # << >> /\ Top.pc = "enter"
    /\ Top.depth < max_depth
    /\ winner(objs[Top.gs]) # None
    /\ Return(Top, IF winner(objs[Top.gs]) = Top.updating_player THEN One ELSE Frac(-1, 1))
    /\ UNCHANGED << nodes, traversals, outside_traversal >>

\* a decision point: current, legal, key, node, the strategy of the node with
\* the reach of the player the code takes to decide, and the first recursive call
TraverseDecision ==
    /\ frames # << >> /\ Top.pc = "enter"
    /\ Top.depth < max_depth
    /\ winner(objs[Top.gs]) = None
    /\ LET gs == objs[Top.gs]
           current == gs.current_player
           legal == legal_actions(gs)
           key == infoset_key(gs, current)
           tbl == setdefault(nodes, key)
           updating == current = Top.updating_player
           r == get_strategy(tbl[key], legal,
                             IF updating THEN Top.reach_prob_updating ELSE Top.reach_prob_other)
           strategy == r.strategy
           f == [Top EXCEPT !.current = current, !.legal = legal, !.key = key,
                            !.strategy = strategy]
       IN  /\ nodes' = Put(tbl, key, r.node)
           /\ IF updating /\ traversal_mode = "full"
              THEN IF legal = << >>
                   THEN Return(f, Zero)
                   ELSE Call(f, 1, Top.reach_prob_other,
                             FMul(Top.reach_prob_updating, strategy[1]))
              ELSE /\ legal # << >>
                   /\ \E idx \in _sample_from_dist(strategy) :
                         IF updating
                         THEN Call(f, idx, Top.reach_prob_other,
                                   FMul(Top.reach_prob_updating, strategy[idx]))
                         ELSE Call(f, idx, FMul(Top.reach_prob_other, strategy[idx]),
                                   Top.reach_prob_updating)
    /\ UNCHANGED << traversals, outside_traversal >>

\* the increment of the sampled action's regret with the utility itself as regret
sampled_regret_OfUtility(ro, p_s, u, node_utility) == FMul(FDiv(ro, p_s), u)

\* (reach_prob_other / p_s) * (u - node_utility)
sampled_regret(ro, p_s, u, node_utility) == FMul(FDiv(ro, p_s), FSub(u, node_utility))

\* the recursive call of the innermost call has returned u: the next pass of the
\* loop in full mode, or the regret update and the return
TraverseResume ==
    /\ frames # << >> /\ Top.pc = "wait" /\ ret # NoValue
    /\ LET f == Top
           u == ret[1]
           node == nodes[f.key]
       IN  IF f.current = f.updating_player
           THEN IF traversal_mode = "full"
                THEN LET action_utils == Append(f.action_utils, u)
                         g == [f EXCEPT !.action_utils = action_utils]
                     IN  IF f.i < Len(f.legal)
                         THEN /\ Call(g, f.i + 1, f.reach_prob_other,
                                      FMul(f.reach_prob_updating, f.strategy[f.i + 1]))
                              /\ UNCHANGED nodes
                         ELSE LET node_utility ==
                                      FSum([n \in 1..Len(f.legal) |->
                                               FMul(f.strategy[n], action_utils[n])])
                              IN  /\ nodes' = Put(nodes, f.key,
                                         [ regret_sum |-> RegretUpdates(node.regret_sum, f.legal,
                                               action_utils, node_utility, f.reach_prob_other, 1),
                                           strategy_sum |-> node.strategy_sum ])
                                  /\ Return(g, node_utility)
                ELSE LET node_utility == u
                         p_s == IF FLe(f.strategy[f.i], Tiny) THEN Tiny ELSE f.strategy[f.i]
                         k == action_key(f.legal[f.i])
                     IN  /\ nodes' = Put(nodes, f.key,
                                [ regret_sum |-> Put(node.regret_sum, k,
                                      FAdd(Get(node.regret_sum, k, Zero),
                                           sampled_regret(f.reach_prob_other, p_s, u,
                                                          node_utility))),
                                  strategy_sum |-> node.strategy_sum ])
                         /\ Return(f, node_utility)
           ELSE /\ Return(f, u)
                /\ UNCHANGED nodes
    /\ UNCHANGED << traversals, outside_traversal >>

NextTraverse ==
    \/ StartTraversal
    \/ TraverseCut
    \/ TraverseTerminal
    \/ TraverseDecision
    \/ TraverseResume
    \/ FinishTraversal

\* one call of iterate()
SpecTraverse == InitTraverse /\ [][NextTraverse]_vars

(* ---------------- C26 ---------------- *)

\* C26: clone independence.  The state the traversal branches from is never
\* changed by exploring a branch: after the solver clones a game state and
\* applies an action to the clone, and recurses from it, the game of every
\* call still open (players, deck, pending fields, current_player) is exactly
\* as it was when the call was made, and every branch of a node starts from
\* the result of applying its legal action to that same parent state.
C26_CloneIndependence ==
    /\ \A d \in 1..Len(frames) : objs[frames[d].gs] = frames[d].entry
    /\ \A d \in 1..(Len(frames) - 1) :
          /\ frames[d + 1].gs # frames[d].gs
          /\ frames[d + 1].entry \in apply(frames[d].entry, frames[d].legal[frames[d].i])

\* a full-mode node, two calls below the start of the traversal, is on a later
\* branch after an earlier one has returned
C26_Witness ==
    /\ traversal_mode = "full"
    /\ Len(frames) >= 3
    /\ frames[1].action_utils # << >>
    /\ frames[2].explored # {}

(* ---------------- C28 ---------------- *)

\* the call that has just returned, when it was at a decision point
ReturnedDecision == ret # NoValue /\ ret[2].legal # << >>

\* C28: full-branch mode explores every action.  With traversal_mode = "full",
\* every decision point reached below the depth cap, whether the player taken
\* as decision-maker is the updating player or the other player, has recursed
\* once into each of its legal actions when it returns, and each recursive
\* call multiplies the reach of that player by the probability of the action.
C28_FullExploresAll ==
    traversal_mode = "full" =>
        /\ ReturnedDecision =>
              /\ ret[2].explored = 1..Len(ret[2].legal)
              /\ ret[2].current = ret[2].updating_player =>
                    Len(ret[2].action_utils) = Len(ret[2].legal)
        /\ \A d \in 1..(Len(frames) - 1) :
              LET p == frames[d]
                  c == frames[d + 1]
              IN  IF p.current = p.updating_player
                  THEN /\ c.reach_prob_updating
                             = FMul(p.reach_prob_updating, p.strategy[p.i])
                       /\ c.reach_prob_other = p.reach_prob_other
                  ELSE /\ c.reach_prob_other = FMul(p.reach_prob_other, p.strategy[p.i])
                       /\ c.reach_prob_updating = p.reach_prob_updating

(* ---------------- C31 ---------------- *)

\* the innermost call is at its entry, at or beyond the depth cap
AtDepthCap == frames # << >> /\ Top.pc = "enter" /\ Top.depth >= max_depth

\* iterate() has returned
IterateDone == traversals = << >> /\ frames = << >> /\ ret = NoValue

\* the most legal actions a 2-player game offers: one per primary action type
MostLegal == Cardinality(PrimaryActionTypes)

\* the most steps a call entered at depth d takes until it has returned
RECURSIVE StepsOfCall(_)
StepsOfCall(d) ==
    IF d >= max_depth THEN 1 ELSE 1 + MostLegal * (StepsOfCall(d + 1) + 1)

\* the most steps call f still takes, the calls above it on the stack not counted
StepsLeft(f) ==
    IF f.pc = "enter" THEN StepsOfCall(f.depth)
    ELSE LET branches == IF traversal_mode = "full" /\ f.current = f.updating_player
                         THEN Len(f.legal) - f.i ELSE 0
         IN  1 + branches * (StepsOfCall(f.depth + 1) + 1)

\* the most steps iterate() still takes
Variant ==
    Len(traversals) * (StepsOfCall(0) + 2)
      + (IF frames # << >> \/ ret # NoValue THEN 1 ELSE 0)
      + SumUpTo([d \in 0..Len(frames) |-> IF d = 0 THEN 0 ELSE StepsLeft(frames[d])],
                Len(frames))

\* the interpreter has a next step to take: the loop of iterate, a call at its
\* entry (the cap, a winner, or legal actions that apply() accepts), or a call
\* whose recursive call has returned
CanStep ==
    IF frames = << >>
    THEN ret # NoValue \/ traversals # << >>
    ELSE IF Top.pc = "enter"
         THEN \/ Top.depth >= max_depth
              \/ winner(objs[Top.gs]) # None
              \/ LET legal == legal_actions(objs[Top.gs])
                 IN  /\ legal # << >>
                     /\ \A i \in 1..Len(legal) : apply(objs[Top.gs], legal[i]) # {}
         ELSE ret # NoValue

\* C31: depth cap and traversal termination.  A traversal call with
\* depth >= max_depth returns 0 without looking up, creating or updating any
\* node, even if the state is terminal; every recursive call increases depth
\* by exactly 1, so the depth of the recursion never exceeds max_depth; and
\* every traversal started at depth 0 terminates: until iterate() has
\* returned there is a next step, and every step lowers the number of steps
\* that can still be taken.
C31_DepthCapTermination ==
    /\ [][AtDepthCap => /\ nodes' = nodes
                        /\ ret' = << Zero, Top >>
                        /\ frames' = SubSeq(frames, 1, Len(frames) - 1)]_vars
    /\ [](\A d \in 1..Len(frames) :
             /\ frames[d].depth = d - 1
             /\ frames[d].depth <= max_depth
             /\ Len(frames[d].legal) <= MostLegal)
    /\ [](IterateDone \/ CanStep)
    /\ [](Variant >= 0)
    /\ [][Variant' < Variant]_vars

\* a call at the depth cap on a game that has a winner has returned 0, one
\* call below the start of the traversal
C31_Witness ==
    /\ ret # NoValue
    /\ ret[2].depth >= max_depth
    /\ winner(ret[2].entry) # None
    /\ ret[1] = Zero
    /\ max_depth >= 1

(* ---------------- C32 ---------------- *)

\* C32: sampled-mode regrets stay zero.  With traversal_mode = "sampled",
\* starting from an empty node table, every regret_sum entry of every node
\* equals 0 at all times, and the regret-matching strategy computed at every
\* decision point is uniform over its legal actions.
C32_SampledRegretsZero ==
    traversal_mode = "sampled" =>
        /\ \A key \in DOMAIN nodes :
              \A k \in DOMAIN nodes[key].regret_sum : nodes[key].regret_sum[k] = Zero
        /\ \A d \in 1..Len(frames) :
              frames[d].pc # "enter" => frames[d].strategy = Uniform(frames[d].legal)
        /\ ReturnedDecision => ret[2].strategy = Uniform(ret[2].legal)

\* a sampled-mode call at a node of the updating player has returned a utility
\* other than 0 and has written the regret of the sampled action
C32_Witness ==
    /\ traversal_mode = "sampled"
    /\ ReturnedDecision
    /\ ret[2].current = ret[2].updating_player
    /\ ret[1] # Zero
    /\ action_key(ret[2].legal[ret[2].i]) \in DOMAIN nodes[ret[2].key].regret_sum

(* ---------------- C33 ---------------- *)

\* the step leaves every regret sum as it was (a node the step creates has none)
RegretsUnchanged ==
    \A key \in DOMAIN nodes' :
        nodes'[key].regret_sum
          = (IF key \in DOMAIN nodes THEN nodes[key].regret_sum ELSE EmptyDict)

\* the step returns from the decision point f, whose decision-maker is dm: if
\* dm is the updating player, the call returns v = sum_i strategy[i] * u_i and
\* the regret of each legal action has grown by reach_other * (u_i - v);
\* if not, no regret has changed
RegretStep(f, dm) ==
    IF dm = f.updating_player
    THEN LET v == FSum([n \in 1..Len(f.legal) |-> FMul(f.strategy[n], f.action_utils[n])])
             key == infoset_key(f.entry, dm)
         IN  /\ Len(f.action_utils) = Len(f.legal)
             /\ ret'[1] = v
             /\ key \in DOMAIN nodes
             /\ \A n \in 1..Len(f.legal) :
                   Get(nodes'[key].regret_sum, action_key(f.legal[n]), Zero)
                     = FAdd(Get(nodes[key].regret_sum, action_key(f.legal[n]), Zero),
                            FMul(f.reach_prob_other, FSub(f.action_utils[n], v)))
    ELSE RegretsUnchanged

\* the step returns from a call that was at a decision point
ReturnsFromDecision ==
    /\ frames # << >> /\ Top.pc = "wait"
    /\ Len(frames') < Len(frames)

\* C33: full-mode regret update.  With traversal_mode = "full", at a node
\* where the decision-maker is the updating player, with child utilities u_i
\* and v = sum_i strategy[i] * u_i, each legal action's regret_sum is
\* increased by reach_other * (u_i - v) and the call returns v; regret_sum is
\* never modified at a node where the decision-maker is not the updating
\* player, nor by any other step; and v always lies in [-1, 1].
C33_FullRegretUpdate ==
    /\ [][traversal_mode = "full" =>
             IF ReturnsFromDecision
             THEN RegretStep(ret'[2], DecisionMaker(ret'[2].entry))
             ELSE RegretsUnchanged]_vars
    /\ [](ret # NoValue => FLe(Frac(-1, 1), ret[1]) /\ FLe(ret[1], One))

(* ---------------- solver/mccfr.py: NodeStats.get_strategy ---------------- *)

\* realization weights explored: reach probabilities, 0 among them
Weights == {Zero, Frac(1, 3), One}

\* node.get_strategy(legal, realization_weight) on a node of the table, or on a
\* new one, with the legal actions of the game: once per table loaded
GetStrategy ==
    /\ op \in {"__init__", "load_checkpoint"}
    /\ \E key \in DOMAIN nodes \cup {infoset_key(G, current_player)}, w \in Weights :
          LET tbl == setdefault(nodes, key)
              legal == legal_actions(G)
              r == get_strategy(tbl[key], legal, w)
          IN  /\ nodes' = Put(tbl, key, r.node)
              /\ ret' = << r.strategy,
                           [ key |-> key, node |-> tbl[key], legal |-> legal,
                             realization_weight |-> w ] >>
    /\ op' = "get_strategy"
    /\ probs' = << >>
    /\ UNCHANGED << game_vars, last, prev, steps, raised, max_depth, traversal_mode,
                    ckpt, at_save, evaluation, traversals, frames, objs >>

NextNode == LoadCheckpoint \/ GetStrategy

\* get_strategy on the nodes of a solver that may have loaded a checkpoint
SpecNode == InitCheckpoint /\ [][NextNode]_vars

(* ---------------- C34 ---------------- *)

\* get_strategy has returned from a call with a non-empty legal list
StrategyReturned == op = "get_strategy" /\ ret[2].legal # << >>

\* the regret of the i-th legal action in the node of the call, 0 when missing
RegretOf(i) == Get(ret[2].node.regret_sum, action_key(ret[2].legal[i]), Zero)

\* the indices of the legal actions whose regret is positive
PositiveRegrets == {i \in 1..Len(ret[2].legal) : ~FLe(RegretOf(i), Zero)}

\* C34: regret matching.  get_strategy over a non-empty legal action list
\* returns, for each action, max(0, regret) divided by the sum of the positive
\* regrets when that sum is positive, and the uniform distribution when every
\* regret is <= 0 or missing; with realization weight 0 it changes neither
\* regret_sum nor strategy_sum, and with weight w > 0 it adds exactly
\* w * strategy[a] to strategy_sum[a] and changes nothing else.
C34_RegretMatching ==
    StrategyReturned =>
        LET call == ret[2]
            strategy == ret[1]
            n == Len(call.legal)
            after == nodes[call.key]
            total == FSum([i \in 1..n |-> IF i \in PositiveRegrets THEN RegretOf(i) ELSE Zero])
        IN  /\ Len(strategy) = n
            /\ \A i \in 1..n :
                  strategy[i] = IF PositiveRegrets = {} THEN Frac(1, n)
                                ELSE IF i \in PositiveRegrets THEN FDiv(RegretOf(i), total)
                                ELSE Zero
            /\ after.regret_sum = call.node.regret_sum
            /\ IF call.realization_weight = Zero
               THEN after.strategy_sum = call.node.strategy_sum
               ELSE /\ \A i \in 1..n :
                          after.strategy_sum[action_key(call.legal[i])]
                            = FAdd(Get(call.node.strategy_sum, action_key(call.legal[i]), Zero),
                                   FMul(call.realization_weight, strategy[i]))
                    /\ \A k \in DOMAIN after.strategy_sum :
                          \/ \E i \in 1..n : k = action_key(call.legal[i])
                          \/ /\ k \in DOMAIN call.node.strategy_sum
                             /\ after.strategy_sum[k] = call.node.strategy_sum[k]

\* a call with a positive weight on a node that holds positive and negative
\* regrets
C34_Witness ==
    /\ StrategyReturned
    /\ PositiveRegrets # {}
    /\ \E i \in 1..Len(ret[2].legal) : RegretOf(i) # Zero /\ FLe(RegretOf(i), Zero)
    /\ ret[2].realization_weight # Zero

(* ---------------- C35 ---------------- *)

\* the latest call was a Challenge of a claim or of a block
Challenged == StageAChallenge \/ StageBChallenge

\* the player whose claim the latest call challenged, and the role claimed
Claimant == IF prev.pending_blocker = None THEN prev.pending_action.actor ELSE prev.pending_blocker

ClaimedRole ==
    IF prev.pending_blocker = None THEN claims(prev.pending_action.type)
    ELSE prev.pending_block_role

\* the latest call made the claimant reveal truthfully
TruthfulReveal == Challenged /\ InList(ClaimedRole, prev.players[Claimant].hand)

\* C35: truthful reveal.  When a player truthfully reveals role R, one copy of
\* R leaves the hand and goes into the deck, the deck is reshuffled and one
\* card is drawn back, so the player's hand size, the deck size and every
\* revealed pile are unchanged and nothing is appended to the revealer's
\* revealed pile; a truthful reveal is only ever performed for a role the
\* player holds: a challenged player who does not hold it sends no card to the
\* deck.
C35_TruthfulReveal ==
    /\ TruthfulReveal =>
          /\ _truthful_reveal(prev, Claimant, ClaimedRole) # {}
          /\ \A h \in _truthful_reveal(prev, Claimant, ClaimedRole) :
                /\ RevealedAndRedrew(prev, h, Claimant, ClaimedRole)
                /\ Len(h.players[Claimant].hand) = Len(prev.players[Claimant].hand)
                /\ DeckLen(h.deck) = DeckLen(prev.deck)
                /\ \A q \in Seats(prev) :
                      /\ h.players[q].revealed = prev.players[q].revealed
                      /\ q # Claimant => h.players[q] = prev.players[q]
                /\ \A r \in Roles : RoleCopies(h, r) = RoleCopies(prev, r)
          /\ players[Claimant].revealed = prev.players[Claimant].revealed
          /\ prev.pending_action.type = "EXCHANGE" \/
                /\ Len(players[Claimant].hand) = Len(prev.players[Claimant].hand)
                /\ DeckLen(deck) = DeckLen(prev.deck)
    /\ Challenged /\ ~TruthfulReveal =>
          /\ deck = prev.deck
          /\ Len(players[Claimant].hand) < Len(prev.players[Claimant].hand)

\* a truthful reveal has given the claimant a card other than the one revealed
C35_Witness ==
    /\ TruthfulReveal
    /\ SortedByValue(players[Claimant].hand) # SortedByValue(prev.players[Claimant].hand)
    /\ Len(players[Claimant].hand) = Len(prev.players[Claimant].hand)

(* ---------------- C36 ---------------- *)

\* C36: revealed piles are append-only and influence loss is one card.  Across
\* every apply, each player's revealed pile after the call is the pile before
\* the call with zero or more cards appended, and the cards appended are the
\* first cards of that player's hand, which the hand has lost; a single
\* influence loss on a non-empty hand removes the first card of the hand and
\* appends that same card to that player's revealed pile and changes nothing
\* else, and an influence loss on an empty hand changes nothing.
C36_RevealedAppendOnly ==
    /\ Acted =>
          \A p \in Seats(G) :
              \/ players[p].revealed = prev.players[p].revealed
              \/ \E n \in 1..cards_per_player : LostCards(prev.players[p], players[p], n)
    /\ \A pid \in Seats(G) :
          LET before == players[pid]
              h == _lose_influence(G, pid)
          IN  IF before.hand = << >> THEN h = G
              ELSE /\ h.players[pid].hand = Tail(before.hand)
                   /\ h.players[pid].revealed = Append(before.revealed, Head(before.hand))
                   /\ h.players[pid].coins = before.coins
                   /\ h = [G EXCEPT !.players[pid] = h.players[pid]]

\* a player with two different cards has lost the first one
C36_Witness ==
    /\ Acted
    /\ \E p \in Seats(G) :
          /\ Len(prev.players[p].hand) = 2
          /\ prev.players[p].hand[1] # prev.players[p].hand[2]
          /\ players[p].hand = << prev.players[p].hand[2] >>
          /\ players[p].revealed = Append(prev.players[p].revealed, prev.players[p].hand[1])

(* ---------------- C37 ---------------- *)
(* tests/test_rollout_termination.py: the first-legal-action rollout *)

\* max_steps of test_random_rollout_terminates_under_cap
max_steps == 300

\* gs = GameState(num_players=2, seed=...); steps = 0
InitRolloutTest ==
    /\ \E seed \in 0..MaxSeed : GameIs(_setup(2, seed)) /\ prev = _setup(2, seed)
    /\ last = NoAction
    /\ steps = 0
    /\ raised = "None"
    /\ NoSolver

\* one pass of the while loop: legal = gs.legal_actions(); assert legal;
\* gs.apply(legal[0]); steps += 1
FirstLegalStep ==
    /\ raised = "None"
    /\ winner(G) = None /\ steps < max_steps
    /\ LET legal == legal_actions(G)
       IN  IF legal = << >>
           THEN /\ raised' = "AssertionError"
                /\ UNCHANGED << game_vars, last, prev, steps, solver_vars >>
           ELSE \E h \in apply(G, legal[1]) : Become(h, legal[1])

NextRolloutTest == FirstLegalStep

SpecRolloutTest == InitRolloutTest /\ [][NextRolloutTest]_vars

\* the while loop goes on as long as its condition holds
SpecRolloutTestFair == SpecRolloutTest /\ WF_vars(NextRolloutTest)

\* C37: the first-legal-action rollout terminates.  From a fresh 2-player game,
\* applying the first element of legal_actions() again and again, the legal
\* list is non-empty (and its first element is applied without an exception)
\* at every step before the game is won, the count of applied actions stays
\* below 300, and a state with a winner is reached.
C37_RolloutTerminates ==
    /\ [](raised = "None")
    /\ [](winner(G) = None => /\ legal_actions(G) # << >>
                              /\ apply(G, legal_actions(G)[1]) # {})
    /\ [](steps < max_steps)
    /\ <>(winner(G) # None)

\* the rollout has reached a winner after some applied actions
C37_Witness ==
    /\ winner(G) # None
    /\ steps > 0
    /\ last \in Range(legal_actions(prev)) /\ last = legal_actions(prev)[1]

(* ---------------- C38 ---------------- *)

\* C38: the influence count is fixed per player.  In every reachable state and
\* for every player, the number of cards in hand plus the number of cards in
\* the revealed pile equals cards_per_player; a hand never grows, also not by
\* an Exchange performed with a one-card hand.
C38_InfluenceFixed ==
    /\ \A p \in Seats(G) :
          Len(players[p].hand) + Len(players[p].revealed) = cards_per_player
    /\ Acted => \A p \in Seats(G) : Len(players[p].hand) <= Len(prev.players[p].hand)

(* ---------------- C39 ---------------- *)

\* the interaction of g is at Stage B: a block has been declared
InStageB(g) == g.pending_action # NoAction /\ g.pending_blocker # None

\* C39: bounded interaction.  A primary action either resolves at once or
\* opens a Stage A window (no blocker); a Stage A response resolves the
\* interaction (all pending fields null) unless it is a block, which leads to
\* Stage B of the same pending action; every Stage B response resolves the
\* interaction, and Stage B offers challenge and pass only: no state has a
\* pending interaction that accepts a third response.
C39_BoundedInteraction ==
    /\ Acted /\ prev.pending_action = NoAction =>
          PendingAllNull(G) \/ (StageA /\ pending_action = last)
    /\ Acted /\ prev.pending_action # NoAction /\ prev.pending_blocker = None =>
          IF last.type \in BlockTypes
          THEN InStageB(G) /\ pending_action = prev.pending_action
               /\ pending_blocker = last.actor
          ELSE PendingAllNull(G)
    /\ Acted /\ InStageB(prev) => PendingAllNull(G)
    /\ InStageB(G) =>
          /\ legal_actions(G) # << >> \/ winner(G) # None
          /\ \A a \in Range(legal_actions(G)) :
                /\ a.type \in {"CHALLENGE", "PASS"}
                /\ \A h \in apply(G, a) : PendingAllNull(h)
    /\ pending_action = NoAction => PendingAllNull(G)

\* a primary action, a block and the answer to the block: the second response
\* has resolved the interaction
C39_Witness ==
    /\ Acted /\ InStageB(prev) /\ PendingAllNull(G)
    /\ steps = 3
    /\ last.type \in {"CHALLENGE", "PASS"}

(* ---------------- C40 ---------------- *)

\* the most coins a primary action brings its actor (Tax)
MostGain == 3

\* C40: coins are bounded above.  Every player has at most 12 coins; coins are
\* gained only by the actor of the primary action, at most 3 at a time and
\* only by an action declared with fewer than 10 coins; and a player who
\* starts a turn with 10 coins or more has Coup as only legal action, which
\* costs 7 coins.
C40_CoinsBounded ==
    /\ \A p \in Seats(G) :
          players[p].coins <= (mandatory_coup_threshold - 1) + MostGain
    /\ Acted =>
          \A p \in Seats(G) :
              players[p].coins > prev.players[p].coins =>
                 /\ p = PrimaryActor
                 /\ players[p].coins - prev.players[p].coins <= MostGain
                 /\ prev.players[p].coins < mandatory_coup_threshold
    /\ pending_action = NoAction /\ winner(G) = None =>
          \A p \in Seats(G) :
              LET g == [G EXCEPT !.current_player = p]
              IN  players[p].hand # << >> /\ players[p].coins >= mandatory_coup_threshold =>
                     /\ Len(legal_actions(g)) = 1
                     /\ legal_actions(g)[1].type = "COUP"
                     /\ legal_actions(g)[1].actor = p
                     /\ apply(g, legal_actions(g)[1]) # {}
                     /\ \A h \in apply(g, legal_actions(g)[1]) :
                           h.players[p].coins = players[p].coins - coup_cost

\* a player who had 9 coins has collected a Tax and now has 12 coins
C40_Witness ==
    /\ Acted
    /\ \E p \in Seats(G) :
          /\ p = PrimaryActor
          /\ prev.players[p].coins = mandatory_coup_threshold - 1
          /\ players[p].coins = 12

====
